---- MODULE Spec2Model ----
(***************************************************************************)
(* College Event Participation Tracker: the Student Registry, the Event    *)
(* Registry and the Participation Ledger over the relational store.        *)
(*                                                                         *)
(* Text values whose characters matter (a usn, a year typed as text, an    *)
(* event date) are sequences of one-character strings; names, departments  *)
(* and event types are compared only for emptiness and equality and are    *)
(* plain strings.  A value "row or None" is a sequence of length 0 or 1.   *)
(***************************************************************************)
EXTENDS Integers, Sequences, FiniteSets, Bags, TLC

\* ---------------------------------------------------------------- constants
\* the limit the reports take when none is passed
DefaultLimit == 10

\* ------------------------------------------------------------------ bounds
\* participation rows in the stores the ranking reports are run on
MaxReportRows == 2
\* participation rows in the stores the counting reports are run on
MaxCountRows == 3
\* engine-assigned event ids are handed out up to MaxEventId
MaxEventId == 2
\* number of student rows the store holds at once
MaxStudents == 2
\* event ids handed out where the student registry is in focus
MaxRegistryEventId == 1

\* ------------------------------------------------------------ input values
NL == "\n"

U1 == <<"1", "M", "S", "2", "1", "C", "S", "0", "0", "1">>
U2 == <<"2", "A", "B", "2", "2", "E", "C", "0", "0", "2">>
UNoLead == <<"M", "S", "2", "1", "C", "S", "0", "0", "1">>
ULower == <<"1", "m", "s", "2", "1", "c", "s", "0", "0", "1">>
UExtra == <<"1", "M", "S", "2", "1", "C", "S", "0", "0", "1", "1">>
UNewline == <<"1", "M", "S", "2", "1", "C", "S", "0", "0", "1", NL>>
UEmpty == << >>
U3 == <<"3", "C", "A", "2", "3", "M", "E", "0", "0", "3">>

UsnInputs == {U1, U2, UNoLead, ULower, UExtra, UNewline, UEmpty}

NameInputs == {"", "Asha", "Ravi"}
DeptInputs == {"", "CSE", "ECE"}

\* a year is passed as an int (module callers) or as text (the menu)
IntYear(n) == [t |-> "int", v |-> n]
StrYear(s) == [t |-> "str", v |-> s]
YearInputs ==
    {IntYear(0), IntYear(1), IntYear(5), IntYear(6),
     StrYear(<< >>), StrYear(<<"0">>), StrYear(<<" ", "5">>),
     StrYear(<<"6">>), StrYear(<<"x">>)}

EventNameInputs == {"", "Hack"}
EventTypeInputs == {"", "Technical"}
D1 == <<"2", "0", "2", "5", "-", "0", "6", "-", "0", "1">>
D2 == <<"2", "0", "2", "5", "-", "6", "-", "2">>
DNextYear == <<"2", "0", "2", "6", "-", "0", "1", "-", "1", "5">>
DBadFormat == <<"0", "1", "/", "0", "6", "/", "2", "0", "2", "5">>
DBadDay == <<"2", "0", "2", "5", "-", "0", "2", "-", "3", "0">>
DateInputs == {<< >>, D1, D2, DBadFormat, DBadDay}

\* event ids as the callers pass them: 0 is the falsy id
EventIdInputs(max) == 0 .. (max + 1)

valid_performances == {"Winner", "Runner-up", "Participant"}
PerformanceInputs == valid_performances \cup {"", "Champion"}

\* ---------------------------------------------------------------- text
Digits == {"0", "1", "2", "3", "4", "5", "6", "7", "8", "9"}
Upper == {"A", "B", "C", "E", "M", "S"}
Spaces == {" ", NL}

DigitVal(c) ==
    CASE c = "0" -> 0 [] c = "1" -> 1 [] c = "2" -> 2 [] c = "3" -> 3
      [] c = "4" -> 4 [] c = "5" -> 5 [] c = "6" -> 6 [] c = "7" -> 7
      [] c = "8" -> 8 [] c = "9" -> 9

AllIn(s, lo, hi, set) == \A i \in lo .. hi : s[i] \in set

RECURSIVE NatOf(_)
NatOf(s) == IF s = << >> THEN 0
            ELSE 10 * NatOf(SubSeq(s, 1, Len(s) - 1)) + DigitVal(s[Len(s)])

RECURSIVE LStrip(_)
LStrip(s) == IF s # << >> /\ Head(s) \in Spaces THEN LStrip(Tail(s)) ELSE s

RECURSIVE RStrip(_)
RStrip(s) == IF s # << >> /\ s[Len(s)] \in Spaces
             THEN RStrip(SubSeq(s, 1, Len(s) - 1)) ELSE s

\* the pattern ^\d[A-Z]{2}\d{2}[A-Z]{2}\d{3} matched from the start of s
UsnPrefixMatches(s) ==
    /\ Len(s) >= 10
    /\ s[1] \in Digits
    /\ AllIn(s, 2, 3, Upper)
    /\ AllIn(s, 4, 5, Digits)
    /\ AllIn(s, 6, 7, Upper)
    /\ AllIn(s, 8, 10, Digits)

\* $ without MULTILINE: at the end of the text, or just before a newline
\* that is the last character
DollarAt(s, pos) ==
    \/ pos = Len(s) + 1
    \/ pos = Len(s) /\ s[Len(s)] = NL

validate_usn(usn) == UsnPrefixMatches(usn) /\ DollarAt(usn, 11)

\* Python truthiness of the argument kinds used
Truthy(x) == x # ""
TruthyText(x) == x # << >>
TruthyYear(year) == IF year.t = "int" THEN year.v # 0 ELSE year.v # << >>
TruthyId(event_id) == event_id # 0

\* int(year): [ok, v]; ok = FALSE stands for ValueError
IntOfText(s) ==
    LET body == RStrip(LStrip(s))
        signed == body # << >> /\ Head(body) \in {"+", "-"}
        digs == IF signed THEN Tail(body) ELSE body
    IN  IF digs # << >> /\ AllIn(digs, 1, Len(digs), Digits)
        THEN [ok |-> TRUE,
              v |-> IF signed /\ Head(body) = "-" THEN 0 - NatOf(digs)
                    ELSE NatOf(digs)]
        ELSE [ok |-> FALSE, v |-> 0]

IntOf(year) == IF year.t = "int" THEN [ok |-> TRUE, v |-> year.v]
               ELSE IntOfText(year.v)

\* validate_year with the upper limit off by one
validate_year_UpTo6(year) ==
    LET n == IntOf(year) IN n.ok /\ 1 <= n.v /\ n.v <= 6

validate_year(year) ==
    LET n == IntOf(year) IN n.ok /\ 1 <= n.v /\ n.v <= 5

\* datetime.strptime(event_date, '%Y-%m-%d'): [ok, v]; ok = FALSE stands for
\* ValueError, v is the calendar date <<year, month, day>>
IsLeap(y) == (y % 4 = 0 /\ y % 100 # 0) \/ y % 400 = 0

DaysIn(y, m) ==
    IF m = 2 THEN (IF IsLeap(y) THEN 29 ELSE 28)
    ELSE IF m \in {4, 6, 9, 11} THEN 30 ELSE 31

\* %m is 1[0-2]|0[1-9]|[1-9] and %d is 3[01]|[12]\d|0[1-9]|[1-9]
FieldOK(f, hi) ==
    /\ Len(f) \in {1, 2}
    /\ AllIn(f, 1, Len(f), Digits)
    /\ NatOf(f) >= 1
    /\ NatOf(f) <= hi

DateShape(s, ml, dl) ==
    /\ Len(s) = 4 + 1 + ml + 1 + dl
    /\ AllIn(s, 1, 4, Digits)
    /\ s[5] = "-"
    /\ s[6 + ml] = "-"
    /\ FieldOK(SubSeq(s, 6, 5 + ml), 12)
    /\ FieldOK(SubSeq(s, 7 + ml, 6 + ml + dl), 31)

strptime(s) ==
    LET shapes == {sh \in {1, 2} \X {1, 2} : DateShape(s, sh[1], sh[2])}
    IN  IF shapes = {} THEN [ok |-> FALSE, v |-> <<0, 0, 0>>]
        ELSE LET sh == CHOOSE x \in shapes : TRUE
                 y == NatOf(SubSeq(s, 1, 4))
                 m == NatOf(SubSeq(s, 6, 5 + sh[1]))
                 d == NatOf(SubSeq(s, 7 + sh[1], 6 + sh[1] + sh[2]))
             IN  IF y >= 1 /\ d <= DaysIn(y, m)
                 THEN [ok |-> TRUE, v |-> <<y, m, d>>]
                 ELSE [ok |-> FALSE, v |-> <<0, 0, 0>>]

\* ------------------------------------------------------------------ state
VARIABLES
    students,       \* table students: usn -> [name, department, year]
    events,         \* table events: event_id -> [name, event_type, department, event_date]
    participation,  \* table participation: bag of rows [usn, event_id, performance]
    nextEventId,    \* AUTO_INCREMENT counter of events.event_id
    gateway,        \* DatabaseConnection: [connection, cursor]
    engine,         \* what the gateway meets: [server, database, schema_file, may_create]
    process,        \* "running", or "exited" after sys.exit
    result,         \* what the last gateway primitive gave its caller
    sessions        \* the runs of the application that share one database:
                    \* session -> where its handler stands, statement by statement

vars == <<students, events, participation, nextEventId,
          gateway, engine, process, result, sessions>>

\* the store as one value, as the statements see it
DB == [students |-> students, events |-> events,
       participation |-> participation, nextEventId |-> nextEventId]

None == << >>
Some(r) == <<r>>

\* ------------------------------------------------- the relational engine
\* Each statement yields [err, db]: err = TRUE is an engine error (the
\* statement changed nothing), db the store after the statement.
Rejected(d) == [err |-> TRUE, db |-> d]
Done(d) == [err |-> FALSE, db |-> d]

\* The participation table is a bag: the surrogate id of a row is never
\* read back for a lookup, it only tells two otherwise equal rows apart.
RECURSIVE Copies(_, _)
Copies(B, S) ==
    IF S = {} THEN 0
    ELSE LET p == CHOOSE x \in S : TRUE IN B[p] + Copies(B, S \ {p})

Keep(B, S) == [p \in S |-> B[p]]

Matching(B, usn, event_id) ==
    {p \in DOMAIN B : p.usn = usn /\ p.event_id = event_id}

Without(f, k) == [x \in (DOMAIN f) \ {k} |-> f[x]]
With(f, k, v) == [x \in (DOMAIN f) \cup {k} |-> IF x = k THEN v ELSE f[x]]

\* schema: students.usn is the primary key
PrimaryKeyFree(d, usn) == usn \notin DOMAIN d.students

\* a schema without the two foreign keys
ForeignKeysHold_NoKey(d, usn, event_id) == TRUE

\* schema: participation.usn and participation.event_id are foreign keys
ForeignKeysHold(d, usn, event_id) ==
    usn \in DOMAIN d.students /\ event_id \in DOMAIN d.events

\* a schema without the key on (usn, event_id)
UniquePairFree_NoKey(d, usn, event_id) == TRUE

\* schema: one participation row per (usn, event_id)
UniquePairFree(d, usn, event_id) ==
    Matching(d.participation, usn, event_id) = {}

\* a schema whose foreign key on usn does not cascade
CascadeStudent_Keeps(rows, usn) == rows

\* schema: ON DELETE CASCADE of both foreign keys
CascadeStudent(rows, usn) == Keep(rows, {p \in DOMAIN rows : p.usn # usn})
CascadeEvent(rows, event_id) ==
    Keep(rows, {p \in DOMAIN rows : p.event_id # event_id})

InsertStudent(d, usn, name, department, year) ==
    IF PrimaryKeyFree(d, usn)
    THEN Done([d EXCEPT !.students =
                 With(@, usn, [name |-> name, department |-> department,
                               year |-> year])])
    ELSE Rejected(d)

\* UPDATE students without its WHERE clause
UpdateStudentRow_AllRows(d, usn, name, department, year) ==
    Done([d EXCEPT !.students =
            [u \in DOMAIN @ |->
               [name |-> name, department |-> department, year |-> year]]])

\* UPDATE students that leaves the department column out
UpdateStudentRow_NoDepartment(d, usn, name, department, year) ==
    IF usn \in DOMAIN d.students
    THEN Done([d EXCEPT !.students[usn] =
                 [name |-> name, department |-> @.department, year |-> year]])
    ELSE Done(d)

UpdateStudentRow(d, usn, name, department, year) ==
    IF usn \in DOMAIN d.students
    THEN Done([d EXCEPT !.students[usn] =
                 [name |-> name, department |-> department, year |-> year]])
    ELSE Done(d)

DeleteStudentRow(d, usn) ==
    Done([d EXCEPT !.students = Without(@, usn),
                   !.participation = CascadeStudent(@, usn)])

InsertEvent(d, name, event_type, department, event_date) ==
    Done([d EXCEPT !.events =
            With(@, d.nextEventId,
                 [name |-> name, event_type |-> event_type,
                  department |-> department, event_date |-> event_date]),
                   !.nextEventId = @ + 1])

\* the UPDATE without its WHERE clause
UpdateEventRow_AllRows(d, event_id, name, event_type, department, event_date) ==
    Done([d EXCEPT !.events =
            [e \in DOMAIN d.events |->
                [name |-> name, event_type |-> event_type,
                 department |-> department, event_date |-> event_date]]])

UpdateEventRow(d, event_id, name, event_type, department, event_date) ==
    IF event_id \in DOMAIN d.events
    THEN Done([d EXCEPT !.events[event_id] =
                 [name |-> name, event_type |-> event_type,
                  department |-> department, event_date |-> event_date]])
    ELSE Done(d)

DeleteEventRow(d, event_id) ==
    Done([d EXCEPT !.events = Without(@, event_id),
                   !.participation = CascadeEvent(@, event_id)])

InsertParticipation(d, usn, event_id, performance) ==
    IF ForeignKeysHold(d, usn, event_id) /\ UniquePairFree(d, usn, event_id)
    THEN Done([d EXCEPT !.participation =
                 @ (+) SetToBag({[usn |-> usn, event_id |-> event_id,
                                  performance |-> performance]})])
    ELSE Rejected(d)

UpdateParticipationRows(d, usn, event_id, performance) ==
    LET old == d.participation
        hit == Matching(old, usn, event_id)
        new == [usn |-> usn, event_id |-> event_id, performance |-> performance]
        rest == Keep(old, (DOMAIN old) \ hit)
    IN  Done([d EXCEPT !.participation =
                IF hit = {} THEN old
                ELSE rest (+) [p \in {new} |-> Copies(old, hit)]])

\* DELETE FROM participation with the usn alone in its WHERE clause
DeleteParticipationRows_ByUsn(d, usn, event_id) ==
    Done([d EXCEPT !.participation =
            Keep(@, {p \in DOMAIN @ : p.usn # usn})])

DeleteParticipationRows(d, usn, event_id) ==
    Done([d EXCEPT !.participation =
            Keep(@, (DOMAIN @) \ Matching(@, usn, event_id))])

\* ------------------------------------------------------ storage gateway
\* failed: the engine raised an Error inside this call
execute_query(d, outcome, failed) ==
    IF failed \/ outcome.err THEN [ok |-> FALSE, db |-> d]
    ELSE [ok |-> TRUE, db |-> outcome.db]

fetch_one(rows, failed) ==
    IF failed \/ rows = {} THEN None ELSE Some(CHOOSE r \in rows : TRUE)

\* ------------------------------------------------------------- results
\* a returned (success, message) pair, or an exception leaving the call
Ret(d, ok, msg) ==
    [db |-> d, ret |-> [raised |-> FALSE, ok |-> ok, msg |-> msg]]
Raise(d, exc) ==
    [db |-> d, ret |-> [raised |-> TRUE, ok |-> FALSE, msg |-> exc]]

\* the numbered gateway calls of one handler run that may fail
GatewayCalls == 1 .. 4

\* ------------------------------------------------------- student registry
StudentRows(d, usn) ==
    IF usn \in DOMAIN d.students
    THEN {[usn |-> usn, name |-> d.students[usn].name,
           department |-> d.students[usn].department,
           year |-> d.students[usn].year]}
    ELSE {}

get_student_by_usn(d, usn, failed) == fetch_one(StudentRows(d, usn), failed)

add_student(d, usn, name, department, year, f) ==
    IF ~TruthyText(usn) \/ ~Truthy(name) \/ ~Truthy(department)
         \/ ~TruthyYear(year)
    THEN Ret(d, FALSE, "All fields are required")
    ELSE IF ~validate_usn(usn)
    THEN Ret(d, FALSE, "Invalid USN format. Expected format: 1MS21CS001")
    ELSE IF ~validate_year(year)
    THEN Ret(d, FALSE, "Year must be between 1 and 5")
    ELSE IF fetch_one(StudentRows(d, usn), 1 \in f) # None
    THEN Ret(d, FALSE, "Student with USN already exists")
    ELSE LET success ==
                 execute_query(d, InsertStudent(d, usn, name, department,
                                                IntOf(year).v), 2 \in f)
         IN  IF success.ok
             THEN Ret(success.db, TRUE, "Student added successfully")
             ELSE Ret(success.db, FALSE, "Failed to add student")

update_student(d, usn, name, department, year, f) ==
    IF ~TruthyText(usn) \/ ~Truthy(name) \/ ~Truthy(department)
         \/ ~TruthyYear(year)
    THEN Ret(d, FALSE, "All fields are required")
    ELSE IF ~validate_year(year)
    THEN Ret(d, FALSE, "Year must be between 1 and 5")
    ELSE IF get_student_by_usn(d, usn, 1 \in f) = None
    THEN Ret(d, FALSE, "Student with USN not found")
    ELSE LET success ==
                 execute_query(d, UpdateStudentRow(d, usn, name, department,
                                                   IntOf(year).v), 2 \in f)
         IN  IF success.ok
             THEN Ret(success.db, TRUE, "Student updated successfully")
             ELSE Ret(success.db, FALSE, "Failed to update student")

delete_student(d, usn, f) ==
    IF get_student_by_usn(d, usn, 1 \in f) = None
    THEN Ret(d, FALSE, "Student with USN not found")
    ELSE LET success == execute_query(d, DeleteStudentRow(d, usn), 2 \in f)
         IN  IF success.ok
             THEN Ret(success.db, TRUE, "Student deleted successfully")
             ELSE Ret(success.db, FALSE, "Failed to delete student")

\* --------------------------------------------------------- event registry
EventRows(d, event_id) ==
    IF event_id \in DOMAIN d.events
    THEN {[event_id |-> event_id, name |-> d.events[event_id].name,
           event_type |-> d.events[event_id].event_type,
           department |-> d.events[event_id].department,
           event_date |-> d.events[event_id].event_date]}
    ELSE {}

get_event_by_id(d, event_id, failed) == fetch_one(EventRows(d, event_id), failed)

\* add_event issuing its INSERT before it validates the date
add_event_InsertFirst(d, name, event_type, department, event_date, f) ==
    IF ~Truthy(name) \/ ~Truthy(event_type) \/ ~Truthy(department)
         \/ ~TruthyText(event_date)
    THEN Ret(d, FALSE, "All fields are required")
    ELSE LET success ==
                 execute_query(d, InsertEvent(d, name, event_type, department,
                                              strptime(event_date).v), 1 \in f)
         IN  IF ~strptime(event_date).ok
             THEN Ret(success.db, FALSE, "Invalid date format. Use YYYY-MM-DD")
             ELSE IF success.ok
             THEN Ret(success.db, TRUE, "Event added successfully")
             ELSE Ret(success.db, FALSE, "Failed to add event")

add_event(d, name, event_type, department, event_date, f) ==
    IF ~Truthy(name) \/ ~Truthy(event_type) \/ ~Truthy(department)
         \/ ~TruthyText(event_date)
    THEN Ret(d, FALSE, "All fields are required")
    ELSE IF ~strptime(event_date).ok
    THEN Ret(d, FALSE, "Invalid date format. Use YYYY-MM-DD")
    ELSE LET success ==
                 execute_query(d, InsertEvent(d, name, event_type, department,
                                              strptime(event_date).v), 1 \in f)
         IN  IF success.ok
             THEN Ret(success.db, TRUE, "Event added successfully")
             ELSE Ret(success.db, FALSE, "Failed to add event")

update_event(d, event_id, name, event_type, department, event_date, f) ==
    IF ~TruthyId(event_id) \/ ~Truthy(name) \/ ~Truthy(event_type)
         \/ ~Truthy(department) \/ ~TruthyText(event_date)
    THEN Ret(d, FALSE, "All fields are required")
    ELSE IF ~strptime(event_date).ok
    THEN Ret(d, FALSE, "Invalid date format. Use YYYY-MM-DD")
    ELSE IF get_event_by_id(d, event_id, 1 \in f) = None
    THEN Ret(d, FALSE, "Event with ID not found")
    ELSE LET success ==
                 execute_query(d, UpdateEventRow(d, event_id, name, event_type,
                                                 department,
                                                 strptime(event_date).v),
                               2 \in f)
         IN  IF success.ok
             THEN Ret(success.db, TRUE, "Event updated successfully")
             ELSE Ret(success.db, FALSE, "Failed to update event")

delete_event(d, event_id, f) ==
    IF get_event_by_id(d, event_id, 1 \in f) = None
    THEN Ret(d, FALSE, "Event with ID not found")
    ELSE LET success == execute_query(d, DeleteEventRow(d, event_id), 2 \in f)
         IN  IF success.ok
             THEN Ret(success.db, TRUE, "Event deleted successfully")
             ELSE Ret(success.db, FALSE, "Failed to delete event")

\* ---------------------------------------------------- participation ledger
ParticipationRows(d, usn, event_id) == Matching(d.participation, usn, event_id)

get_participation(d, usn, event_id, failed) ==
    fetch_one(ParticipationRows(d, usn, event_id), failed)

\* register_participation without the branch that updates an existing row
register_participation_InsertOnly(d, usn, event_id, performance, f) ==
    IF ~TruthyText(usn) \/ ~TruthyId(event_id)
    THEN Ret(d, FALSE, "Student USN and Event ID are required")
    ELSE IF performance \notin valid_performances
    THEN Ret(d, FALSE, "Performance must be one of")
    ELSE IF get_student_by_usn(d, usn, 1 \in f) = None
    THEN Ret(d, FALSE, "Student with USN not found")
    ELSE IF get_event_by_id(d, event_id, 2 \in f) = None
    THEN Ret(d, FALSE, "Event with ID not found")
    ELSE LET success ==
                 execute_query(d, InsertParticipation(d, usn, event_id,
                                                      performance), 4 \in f)
         IN  IF success.ok
             THEN Ret(success.db, TRUE, "Registered")
             ELSE Ret(success.db, FALSE, "Failed to register participation")

\* register_participation without the check of the performance value
register_participation_AnyPerformance(d, usn, event_id, performance, f) ==
    IF ~TruthyText(usn) \/ ~TruthyId(event_id)
    THEN Ret(d, FALSE, "Student USN and Event ID are required")
    ELSE IF get_student_by_usn(d, usn, 1 \in f) = None
    THEN Ret(d, FALSE, "Student with USN not found")
    ELSE IF get_event_by_id(d, event_id, 2 \in f) = None
    THEN Ret(d, FALSE, "Event with ID not found")
    ELSE IF get_participation(d, usn, event_id, 3 \in f) # None
    THEN LET success ==
                 execute_query(d, UpdateParticipationRows(d, usn, event_id,
                                                          performance), 4 \in f)
         IN  IF success.ok
             THEN Ret(success.db, TRUE, "Updated participation")
             ELSE Ret(success.db, FALSE, "Failed to update participation")
    ELSE LET success ==
                 execute_query(d, InsertParticipation(d, usn, event_id,
                                                      performance), 4 \in f)
         IN  IF success.ok
             THEN Ret(success.db, TRUE, "Registered")
             ELSE Ret(success.db, FALSE, "Failed to register participation")

\* register_participation looking the student up before it checks the
\* performance value
register_participation_StudentFirst(d, usn, event_id, performance, f) ==
    IF ~TruthyText(usn) \/ ~TruthyId(event_id)
    THEN Ret(d, FALSE, "Student USN and Event ID are required")
    ELSE IF get_student_by_usn(d, usn, 1 \in f) = None
    THEN Ret(d, FALSE, "Student with USN not found")
    ELSE IF performance \notin valid_performances
    THEN Ret(d, FALSE, "Performance must be one of")
    ELSE IF get_event_by_id(d, event_id, 2 \in f) = None
    THEN Ret(d, FALSE, "Event with ID not found")
    ELSE IF get_participation(d, usn, event_id, 3 \in f) # None
    THEN LET success ==
                 execute_query(d, UpdateParticipationRows(d, usn, event_id,
                                                          performance), 4 \in f)
         IN  IF success.ok
             THEN Ret(success.db, TRUE, "Updated participation")
             ELSE Ret(success.db, FALSE, "Failed to update participation")
    ELSE LET success ==
                 execute_query(d, InsertParticipation(d, usn, event_id,
                                                      performance), 4 \in f)
         IN  IF success.ok
             THEN Ret(success.db, TRUE, "Registered")
             ELSE Ret(success.db, FALSE, "Failed to register participation")

register_participation(d, usn, event_id, performance, f) ==
    IF ~TruthyText(usn) \/ ~TruthyId(event_id)
    THEN Ret(d, FALSE, "Student USN and Event ID are required")
    ELSE IF performance \notin valid_performances
    THEN Ret(d, FALSE, "Performance must be one of")
    ELSE IF get_student_by_usn(d, usn, 1 \in f) = None
    THEN Ret(d, FALSE, "Student with USN not found")
    ELSE IF get_event_by_id(d, event_id, 2 \in f) = None
    THEN Ret(d, FALSE, "Event with ID not found")
    ELSE IF get_participation(d, usn, event_id, 3 \in f) # None
    THEN LET success ==
                 execute_query(d, UpdateParticipationRows(d, usn, event_id,
                                                          performance), 4 \in f)
         IN  IF success.ok
             THEN Ret(success.db, TRUE, "Updated participation")
             ELSE Ret(success.db, FALSE, "Failed to update participation")
    ELSE LET success ==
                 execute_query(d, InsertParticipation(d, usn, event_id,
                                                      performance), 4 \in f)
         IN  IF success.ok
             THEN Ret(success.db, TRUE, "Registered")
             ELSE Ret(success.db, FALSE, "Failed to register participation")

delete_participation(d, usn, event_id, f) ==
    IF get_participation(d, usn, event_id, 1 \in f) = None
    THEN Ret(d, FALSE, "No participation record found for this student and event")
    ELSE LET success ==
                 execute_query(d, DeleteParticipationRows(d, usn, event_id),
                               2 \in f)
         IN  IF success.ok
             THEN IF get_student_by_usn(success.db, usn, 3 \in f) = None
                       \/ get_event_by_id(success.db, event_id, 4 \in f) = None
                  THEN Raise(success.db, "TypeError")
                  ELSE Ret(success.db, TRUE, "Removed")
             ELSE Ret(success.db, FALSE, "Failed to remove participation")

\* update_performance that registers the pair when it has no row
update_performance_Upsert(d, usn, event_id, performance, f) ==
    IF performance \notin valid_performances
    THEN Ret(d, FALSE, "Performance must be one of")
    ELSE IF get_participation(d, usn, event_id, 1 \in f) = None
    THEN LET success ==
                 execute_query(d, InsertParticipation(d, usn, event_id,
                                                      performance), 2 \in f)
         IN  IF success.ok
             THEN Ret(success.db, TRUE, "Updated performance")
             ELSE Ret(success.db, FALSE, "Failed to update performance")
    ELSE LET success ==
                 execute_query(d, UpdateParticipationRows(d, usn, event_id,
                                                          performance), 2 \in f)
         IN  IF success.ok
             THEN IF get_student_by_usn(success.db, usn, 3 \in f) = None
                       \/ get_event_by_id(success.db, event_id, 4 \in f) = None
                  THEN Raise(success.db, "TypeError")
                  ELSE Ret(success.db, TRUE, "Updated performance")
             ELSE Ret(success.db, FALSE, "Failed to update performance")

update_performance(d, usn, event_id, performance, f) ==
    IF performance \notin valid_performances
    THEN Ret(d, FALSE, "Performance must be one of")
    ELSE IF get_participation(d, usn, event_id, 1 \in f) = None
    THEN Ret(d, FALSE, "No participation record found for this student and event")
    ELSE LET success ==
                 execute_query(d, UpdateParticipationRows(d, usn, event_id,
                                                          performance), 2 \in f)
         IN  IF success.ok
             THEN IF get_student_by_usn(success.db, usn, 3 \in f) = None
                       \/ get_event_by_id(success.db, event_id, 4 \in f) = None
                  THEN Raise(success.db, "TypeError")
                  ELSE Ret(success.db, TRUE, "Updated performance")
             ELSE Ret(success.db, FALSE, "Failed to update performance")


\* ------------------------------------------------------------- behaviour
EmptyStore ==
    /\ students = << >>
    /\ events = << >>
    /\ participation = EmptyBag
    /\ nextEventId = 1

\* the runs of the application working on the one database
Sessions == {1, 2}

\* a run that stands in its menu, between two handlers
Idle ==
    [pc |-> "menu", op |-> "none", usn |-> << >>, event_id |-> 0,
     performance |-> "none", existing |-> "none", outcome |-> "none",
     error |-> "none"]

\* the gateway connected to a database whose tables exist
GatewayReady ==
    /\ sessions = [s \in Sessions |-> Idle]
    /\ gateway = [connection |-> "live", cursor |-> "dict"]
    /\ engine = [server |-> TRUE, database |-> "ready",
                 schema_file |-> TRUE, may_create |-> TRUE]
    /\ process = "running"
    /\ result = [op |-> "none", out |-> "none"]

Init == EmptyStore /\ GatewayReady

\* The values the calls are made with.  In LedgerScope the ledger is
\* exercised in full over students and events of one shape; in RegistryScope
\* the student registry is exercised in full over a small ledger.
LedgerScope ==
    [usn |-> {U1, U2, UEmpty}, name |-> {"Asha"}, department |-> {"CSE"},
     year |-> {IntYear(1)},
     update_usn |-> {U1, UEmpty}, update_name |-> {"Asha", "Ravi"},
     update_department |-> {"CSE"}, update_year |-> {IntYear(1)},
     event_name |-> {"Hack"}, event_type |-> {"Technical"},
     event_department |-> {"CSE"}, event_date |-> {D1},
     update_event_id |-> {0, 1}, update_event_date |-> {D1, D2},
     event_id |-> EventIdInputs(MaxEventId),
     ledger_usn |-> {U1, U2, UEmpty},
     performance |-> {"Winner", "Participant", "Champion"},
     maxStudents |-> MaxStudents, maxEventId |-> MaxEventId]

\* the student registry: every usn, name, department and year input
RegistryScope ==
    [usn |-> UsnInputs, name |-> {"", "Asha"}, department |-> {"", "CSE"},
     year |-> YearInputs,
     update_usn |-> {U1, U2, UEmpty}, update_name |-> {"", "Ravi"},
     update_department |-> {"", "ECE"}, update_year |-> YearInputs,
     event_name |-> {"Hack"}, event_type |-> {"Technical"},
     event_department |-> {"CSE"}, event_date |-> {D1},
     update_event_id |-> {1}, update_event_date |-> {D1, D2},
     event_id |-> EventIdInputs(MaxRegistryEventId),
     ledger_usn |-> {U1, U2},
     performance |-> {"Winner"},
     maxStudents |-> MaxStudents, maxEventId |-> MaxRegistryEventId]

\* the ledger under failing gateway calls
FaultScope ==
    [usn |-> {U1, U2}, name |-> {"Asha"}, department |-> {"CSE"},
     year |-> {IntYear(1)},
     update_usn |-> {U1}, update_name |-> {"Asha", "Ravi"},
     update_department |-> {"CSE"}, update_year |-> {IntYear(1)},
     event_name |-> {"Hack"}, event_type |-> {"Technical"},
     event_department |-> {"CSE"}, event_date |-> {D1},
     update_event_id |-> {1}, update_event_date |-> {D1, D2},
     event_id |-> 1 .. MaxEventId,
     ledger_usn |-> {U1, U2},
     performance |-> {"Winner", "Participant", "Champion"},
     maxStudents |-> MaxStudents, maxEventId |-> MaxEventId]

\* two students and the first events, under failing gateway calls: the
\* states the refusals of every handler are tried in
RefusalScope ==
    [usn |-> {U1, U2, UNoLead}, name |-> {"Asha"}, department |-> {"CSE"},
     year |-> {IntYear(1)},
     update_usn |-> {U1, U2}, update_name |-> {"Asha", "Ravi"},
     update_department |-> {"CSE"}, update_year |-> {IntYear(1)},
     event_name |-> {"Hack"}, event_type |-> {"Technical"},
     event_department |-> {"CSE"}, event_date |-> {D1},
     update_event_id |-> {1}, update_event_date |-> {D1, D2},
     event_id |-> EventIdInputs(MaxRegistryEventId),
     ledger_usn |-> {U1, U2},
     performance |-> {"Winner", "Participant", "Champion"},
     maxStudents |-> MaxStudents, maxEventId |-> MaxRegistryEventId]

\* the stores the reports are run on: students of two departments, events
\* with and without participants, rows of every performance
ReportScope ==
    [usn |-> {U1, U2, U3}, name |-> {"Asha"}, department |-> {"CSE"},
     year |-> {IntYear(1)},
     update_usn |-> {U2}, update_name |-> {"Zoya"},
     update_department |-> {"ECE"}, update_year |-> {IntYear(1)},
     event_name |-> {"Hack"}, event_type |-> {"Technical"},
     event_department |-> {"CSE"}, event_date |-> {D1},
     update_event_id |-> {1}, update_event_date |-> {D2},
     event_id |-> 1 .. MaxEventId,
     ledger_usn |-> {U1, U2, U3},
     performance |-> valid_performances,
     maxStudents |-> MaxStudents, maxEventId |-> MaxEventId]

\* the counting reports do not read the performance column
CountScope ==
    [usn |-> {U1, U2, U3}, name |-> {"Asha"}, department |-> {"CSE"},
     year |-> {IntYear(1)},
     update_usn |-> {U2}, update_name |-> {"Zoya"},
     update_department |-> {"ECE"}, update_year |-> {IntYear(1)},
     event_name |-> {"Hack"}, event_type |-> {"Technical"},
     event_department |-> {"CSE"}, event_date |-> {D1},
     update_event_id |-> {1}, update_event_date |-> {D2},
     event_id |-> 1 .. MaxEventId,
     ledger_usn |-> {U1, U2, U3},
     performance |-> {"Participant"},
     maxStudents |-> MaxStudents, maxEventId |-> MaxEventId]

\* events of two types, in two months of two years
CalendarScope ==
    [usn |-> {U1, U2}, name |-> {"Asha"}, department |-> {"CSE"},
     year |-> {IntYear(1)},
     update_usn |-> {U2}, update_name |-> {"Asha"},
     update_department |-> {"CSE"}, update_year |-> {IntYear(1)},
     event_name |-> {"Hack"}, event_type |-> {"Technical", "Cultural"},
     event_department |-> {"CSE"}, event_date |-> {D1, DNextYear},
     update_event_id |-> {1}, update_event_date |-> {D2},
     event_id |-> 1 .. MaxEventId,
     ledger_usn |-> {U1, U2},
     performance |-> {"Participant"},
     maxStudents |-> MaxStudents, maxEventId |-> MaxEventId]

\* a store small enough to run every item of the Reports menu on
MenuScope ==
    [usn |-> {U1}, name |-> {"Asha"}, department |-> {"CSE"},
     year |-> {IntYear(1)},
     update_usn |-> {U1}, update_name |-> {"Asha"},
     update_department |-> {"ECE"}, update_year |-> {IntYear(1)},
     event_name |-> {"Hack"}, event_type |-> {"Technical"},
     event_department |-> {"CSE"}, event_date |-> {D1},
     update_event_id |-> {1}, update_event_date |-> {D2},
     event_id |-> 1 .. MaxRegistryEventId,
     ledger_usn |-> {U1},
     performance |-> {"Winner", "Participant"},
     maxStudents |-> MaxStudents, maxEventId |-> MaxRegistryEventId]

\* a store that answers every statement
NoFaults == {{}}
\* a store on which any gateway call of a handler run may fail
AnyFaults == SUBSET GatewayCalls
\* the fault choices of a handler that makes k gateway calls
Upto(F, k) == {f \in F : f \subseteq 1 .. k}

WithinBounds(d, c) ==
    /\ Cardinality(DOMAIN d.students) <= c.maxStudents
    /\ d.nextEventId <= c.maxEventId + 1

\* one call: r.db is the store it leaves, r.ret what its caller gets back
Call(r) ==
    /\ students' = r.db.students
    /\ events' = r.db.events
    /\ participation' = r.db.participation
    /\ nextEventId' = r.db.nextEventId
    /\ UNCHANGED <<gateway, engine, process, result, sessions>>

AddStudentCall(usn, name, department, year, f) ==
    Call(add_student(DB, usn, name, department, year, f))

UpdateStudentCall(usn, name, department, year, f) ==
    Call(update_student(DB, usn, name, department, year, f))

DeleteStudentCall(usn, f) ==
    Call(delete_student(DB, usn, f))

AddEventCall(name, event_type, department, event_date, f) ==
    Call(add_event(DB, name, event_type, department, event_date, f))

UpdateEventCall(event_id, name, event_type, department, event_date, f) ==
    Call(update_event(DB, event_id, name, event_type, department, event_date, f))

DeleteEventCall(event_id, f) ==
    Call(delete_event(DB, event_id, f))

RegisterParticipationCall(usn, event_id, performance, f) ==
    Call(register_participation(DB, usn, event_id, performance, f))

UpdatePerformanceCall(usn, event_id, performance, f) ==
    Call(update_performance(DB, usn, event_id, performance, f))

DeleteParticipationCall(usn, event_id, f) ==
    Call(delete_participation(DB, usn, event_id, f))

AddStudent(c, F) ==
    \E usn \in c.usn, name \in c.name, department \in c.department,
       year \in c.year, f \in Upto(F, 2) :
        /\ WithinBounds(add_student(DB, usn, name, department, year, f).db, c)
        /\ AddStudentCall(usn, name, department, year, f)

UpdateStudent(c, F) ==
    \E usn \in c.update_usn, name \in c.update_name,
       department \in c.update_department, year \in c.update_year,
       f \in Upto(F, 2) :
        /\ WithinBounds(DB, c)
        /\ UpdateStudentCall(usn, name, department, year, f)

DeleteStudent(c, F) ==
    \E usn \in c.usn, f \in Upto(F, 2) :
        /\ WithinBounds(DB, c)
        /\ DeleteStudentCall(usn, f)

AddEvent(c, F) ==
    \E name \in c.event_name, event_type \in c.event_type,
       department \in c.event_department, event_date \in c.event_date,
       f \in Upto(F, 1) :
        /\ WithinBounds(add_event(DB, name, event_type, department,
                                  event_date, f).db, c)
        /\ AddEventCall(name, event_type, department, event_date, f)

UpdateEvent(c, F) ==
    \E event_id \in c.update_event_id, name \in c.event_name,
       event_type \in c.event_type, department \in c.event_department,
       event_date \in c.update_event_date, f \in Upto(F, 2) :
        /\ WithinBounds(DB, c)
        /\ UpdateEventCall(event_id, name, event_type, department,
                           event_date, f)

DeleteEvent(c, F) ==
    \E event_id \in c.event_id, f \in Upto(F, 2) :
        /\ WithinBounds(DB, c)
        /\ DeleteEventCall(event_id, f)

RegisterParticipation(c, F) ==
    \E usn \in c.ledger_usn, event_id \in c.event_id,
       performance \in c.performance, f \in Upto(F, 4) :
        /\ WithinBounds(DB, c)
        /\ RegisterParticipationCall(usn, event_id, performance, f)

UpdatePerformance(c, F) ==
    \E usn \in c.ledger_usn, event_id \in c.event_id,
       performance \in c.performance, f \in Upto(F, 4) :
        /\ WithinBounds(DB, c)
        /\ UpdatePerformanceCall(usn, event_id, performance, f)

DeleteParticipation(c, F) ==
    \E usn \in c.ledger_usn, event_id \in c.event_id, f \in Upto(F, 4) :
        /\ WithinBounds(DB, c)
        /\ DeleteParticipationCall(usn, event_id, f)

\* the ledger in focus, on a store that answers
Next ==
    \/ AddStudent(LedgerScope, NoFaults)
    \/ UpdateStudent(LedgerScope, NoFaults)
    \/ DeleteStudent(LedgerScope, NoFaults)
    \/ AddEvent(LedgerScope, NoFaults)
    \/ UpdateEvent(LedgerScope, NoFaults)
    \/ DeleteEvent(LedgerScope, NoFaults)
    \/ RegisterParticipation(LedgerScope, NoFaults)
    \/ UpdatePerformance(LedgerScope, NoFaults)
    \/ DeleteParticipation(LedgerScope, NoFaults)

Spec == Init /\ [][Next]_vars

\* the ledger in focus, on a store whose calls may fail
NextFaulty ==
    \/ AddStudent(FaultScope, AnyFaults)
    \/ UpdateStudent(FaultScope, AnyFaults)
    \/ DeleteStudent(FaultScope, AnyFaults)
    \/ AddEvent(FaultScope, AnyFaults)
    \/ UpdateEvent(FaultScope, AnyFaults)
    \/ DeleteEvent(FaultScope, AnyFaults)
    \/ RegisterParticipation(FaultScope, AnyFaults)
    \/ UpdatePerformance(FaultScope, AnyFaults)
    \/ DeleteParticipation(FaultScope, AnyFaults)

SpecFaulty == Init /\ [][NextFaulty]_vars

\* the student registry in focus, on a store that answers
NextRegistry ==
    \/ AddStudent(RegistryScope, NoFaults)
    \/ UpdateStudent(RegistryScope, NoFaults)
    \/ DeleteStudent(RegistryScope, NoFaults)
    \/ AddEvent(RegistryScope, NoFaults)
    \/ UpdateEvent(RegistryScope, NoFaults)
    \/ DeleteEvent(RegistryScope, NoFaults)
    \/ RegisterParticipation(RegistryScope, NoFaults)
    \/ UpdatePerformance(RegistryScope, NoFaults)
    \/ DeleteParticipation(RegistryScope, NoFaults)

SpecRegistry == Init /\ [][NextRegistry]_vars

\* every handler's refusals, on a store whose calls may fail
NextRefusals ==
    \/ AddStudent(RefusalScope, AnyFaults)
    \/ UpdateStudent(RefusalScope, AnyFaults)
    \/ DeleteStudent(RefusalScope, AnyFaults)
    \/ AddEvent(RefusalScope, AnyFaults)
    \/ UpdateEvent(RefusalScope, AnyFaults)
    \/ DeleteEvent(RefusalScope, AnyFaults)
    \/ RegisterParticipation(RefusalScope, AnyFaults)
    \/ UpdatePerformance(RefusalScope, AnyFaults)
    \/ DeleteParticipation(RefusalScope, AnyFaults)

SpecRefusals == Init /\ [][NextRefusals]_vars

\* ----------------------------------------------------------- read queries
\* A query result is a sequence of records.  ORDER BY fixes the order of
\* rows with different keys only, so a query is modelled by the set of the
\* sequences the engine may return.

\* the rows of a table that is kept as a bag, told apart by a copy number
BagRows(B) ==
    UNION {{[row |-> p, copy |-> k] : k \in 1 .. B[p]} : p \in DOMAIN B}

\* every ordering of the set S that ORDER BY allows: Before is the set of
\* the pairs <<x, y>> whose sort keys put x strictly before y
Orderings(S, Before) ==
    {s \in [1 .. Cardinality(S) -> S] :
        /\ \A x \in S : \E i \in DOMAIN s : s[i] = x
        /\ \A i, j \in DOMAIN s : i < j => <<s[j], s[i]>> \notin Before}

\* LIMIT n
Limit(s, n) == IF n >= Len(s) THEN s ELSE SubSeq(s, 1, n)

\* fetch_all: the rows, or the empty list when the engine raised an Error
fetch_all(results, failed) == IF failed THEN {<< >>} ELSE results

\* students s JOIN participation p ON s.usn = p.usn
StudentsJoinParticipation(d) ==
    {x \in BagRows(d.participation) : x.row.usn \in DOMAIN d.students}

\* ORDER BY CASE WHEN p.performance = 'Winner' THEN 1
\*               WHEN p.performance = 'Runner-up' THEN 2 ELSE 3 END
\* ORDER BY p.performance: the alphabetical order of the three values
WinnerRank_Alphabetical(performance) ==
    CASE performance = "Participant" -> 1
      [] performance = "Runner-up" -> 2
      [] OTHER -> 3

WinnerRank(performance) ==
    CASE performance = "Winner" -> 1
      [] performance = "Runner-up" -> 2
      [] OTHER -> 3

WinnerRow(d, x) ==
    [usn |-> x.row.usn, name |-> d.students[x.row.usn].name,
     department |-> d.students[x.row.usn].department,
     year |-> d.students[x.row.usn].year,
     performance |-> x.row.performance]

get_event_winners(d, event_id, failed) ==
    LET hits == {x \in StudentsJoinParticipation(d) :
                    /\ x.row.event_id = event_id
                    /\ x.row.performance \in {"Winner", "Runner-up"}}
        Before == {xy \in hits \X hits :
                      WinnerRank(xy[1].row.performance)
                        < WinnerRank(xy[2].row.performance)}
    IN  fetch_all({[i \in DOMAIN s |-> WinnerRow(d, s[i])] :
                      s \in Orderings(hits, Before)}, failed)

\* GROUP BY s.usn, s.name, s.department, s.year over students JOIN
\* participation: one group per student that has a row
JoinedStudents(d) ==
    {x.row.usn : x \in StudentsJoinParticipation(d)}

\* COUNT(CASE WHEN p.performance = ... THEN 1 END) within a student's group
CountRows(d, usn, performances) ==
    Cardinality({x \in StudentsJoinParticipation(d) :
                    x.row.usn = usn /\ x.row.performance \in performances})

\* the points column with the Participant term counting every row
PerformerPoints_CountsAll(d, usn) ==
    CountRows(d, usn, {"Winner"}) * 3 + CountRows(d, usn, {"Runner-up"}) * 2
      + CountRows(d, usn, valid_performances)

PerformerPoints(d, usn) ==
    CountRows(d, usn, {"Winner"}) * 3 + CountRows(d, usn, {"Runner-up"}) * 2
      + CountRows(d, usn, {"Participant"})

PerformerRow(d, usn) ==
    [usn |-> usn, name |-> d.students[usn].name,
     department |-> d.students[usn].department,
     year |-> d.students[usn].year,
     wins |-> CountRows(d, usn, {"Winner"}),
     runner_ups |-> CountRows(d, usn, {"Runner-up"}),
     total_participations |-> CountRows(d, usn, valid_performances),
     points |-> PerformerPoints(d, usn)]

\* a negative LIMIT is an Error of the engine
get_top_performers(d, limit, failed) ==
    LET rows == {PerformerRow(d, u) : u \in JoinedStudents(d)}
        Before == {xy \in rows \X rows : xy[1].points > xy[2].points}
    IN  fetch_all({Limit(s, limit) : s \in Orderings(rows, Before)},
                  failed \/ limit < 0)

\* students s LEFT JOIN participation p ON s.usn = p.usn, GROUP BY
\* s.department: the students of a department and their rows
DepartmentUsns(d, department) ==
    {u \in DOMAIN d.students : d.students[u].department = department}

DepartmentRows(d, department) ==
    {x \in BagRows(d.participation) :
        x.row.usn \in DepartmentUsns(d, department)}

\* COUNT(s.usn) without DISTINCT: a student counts once for each row of the
\* join, that is once when it has no participation and once per row otherwise
DepartmentStudents_NotDistinct(d, department) ==
    Cardinality({u \in DepartmentUsns(d, department) :
                    \A x \in DepartmentRows(d, department) : x.row.usn # u})
      + Cardinality(DepartmentRows(d, department))

\* COUNT(DISTINCT s.usn)
DepartmentStudents(d, department) ==
    Cardinality(DepartmentUsns(d, department))

\* the NULL of a numeric column, set apart from every count and quotient
NULL == 0 - 1

\* ROUND(n / k, 2) of two counts, in hundredths: exact values round half
\* up; a division by zero gives NULL
RoundedQuotient(n, k) ==
    IF k = 0 THEN NULL ELSE (200 * n + k) \div (2 * k)

DepartmentRow(d, department) ==
    [department |-> department,
     total_students |-> DepartmentStudents(d, department),
     unique_events_participated |->
        Cardinality({x.row.event_id : x \in DepartmentRows(d, department)}),
     total_participations |-> Cardinality(DepartmentRows(d, department)),
     avg_per_student |->
        RoundedQuotient(Cardinality(DepartmentRows(d, department)),
                        DepartmentStudents(d, department))]

\* COUNT(p.id) within the group of a student of the join
ParticipationCount(d, usn) ==
    Cardinality({x \in BagRows(d.participation) : x.row.usn = usn})

StudentCountRow(d, usn) ==
    [usn |-> usn, name |-> d.students[usn].name,
     department |-> d.students[usn].department,
     year |-> d.students[usn].year,
     participation_count |-> ParticipationCount(d, usn)]

\* with LEFT JOIN every student has a group
get_top_participating_students_LeftJoin(d, limit, failed) ==
    LET rows == {StudentCountRow(d, u) : u \in DOMAIN d.students}
        Before == {xy \in rows \X rows :
                      xy[1].participation_count > xy[2].participation_count}
    IN  fetch_all({Limit(s, limit) : s \in Orderings(rows, Before)},
                  failed \/ limit < 0)

get_top_participating_students(d, limit, failed) ==
    LET rows == {StudentCountRow(d, u) : u \in JoinedStudents(d)}
        Before == {xy \in rows \X rows :
                      xy[1].participation_count > xy[2].participation_count}
    IN  fetch_all({Limit(s, limit) : s \in Orderings(rows, Before)},
                  failed \/ limit < 0)

\* the place of a string of the scopes in the collation of ORDER BY; strings
\* outside the scopes are left unordered among themselves
Collation(string) ==
    CASE string = "" -> 0
      [] string = "Asha" -> 1
      [] string = "CSE" -> 2
      [] string = "ECE" -> 3
      [] string = "Ravi" -> 4
      [] string = "Zoya" -> 5
      [] OTHER -> 6

\* ORDER BY s.department, s.year, s.name
get_all_students(d, failed) ==
    LET rows == {StudentCountRow(d, u) : u \in DOMAIN d.students}
        Before ==
            {xy \in rows \X rows :
                \/ Collation(xy[1].department) < Collation(xy[2].department)
                \/ /\ xy[1].department = xy[2].department
                   /\ \/ xy[1].year < xy[2].year
                      \/ /\ xy[1].year = xy[2].year
                         /\ Collation(xy[1].name) < Collation(xy[2].name)}
    IN  fetch_all(Orderings(rows, Before), failed)

\* COUNT(p.id) within the group of an event of the join
ParticipantCount(d, event_id) ==
    Cardinality({x \in BagRows(d.participation) : x.row.event_id = event_id})

EventCountRow(d, event_id) ==
    [event_id |-> event_id, name |-> d.events[event_id].name,
     event_type |-> d.events[event_id].event_type,
     department |-> d.events[event_id].department,
     event_date |-> d.events[event_id].event_date,
     participant_count |-> ParticipantCount(d, event_id)]

\* with JOIN only the events that have a row have a group
get_events_by_participation_InnerJoin(d, limit, failed) ==
    LET rows == {EventCountRow(d, x.row.event_id) :
                    x \in {y \in BagRows(d.participation) :
                              y.row.event_id \in DOMAIN d.events}}
        Before == {xy \in rows \X rows :
                      xy[1].participant_count > xy[2].participant_count}
    IN  fetch_all({Limit(s, limit) : s \in Orderings(rows, Before)},
                  failed \/ limit < 0)

get_events_by_participation(d, limit, failed) ==
    LET rows == {EventCountRow(d, e) : e \in DOMAIN d.events}
        Before == {xy \in rows \X rows :
                      xy[1].participant_count > xy[2].participant_count}
    IN  fetch_all({Limit(s, limit) : s \in Orderings(rows, Before)},
                  failed \/ limit < 0)

\* COUNT(CASE WHEN p.performance = ... THEN 1 END) within the group of a
\* department of students JOIN participation
DepartmentCount(d, department, performance) ==
    Cardinality({x \in DepartmentRows(d, department) :
                    x.row.performance = performance})

SummaryRow(d, department) ==
    [department |-> department,
     winners |-> DepartmentCount(d, department, "Winner"),
     runners_up |-> DepartmentCount(d, department, "Runner-up"),
     participants |-> DepartmentCount(d, department, "Participant")]

\* with LEFT JOIN every department of a student has a group
get_performance_summary_LeftJoin(d, failed) ==
    LET rows == {SummaryRow(d, d.students[u].department) :
                    u \in DOMAIN d.students}
        Before == {xy \in rows \X rows :
                      \/ xy[1].winners > xy[2].winners
                      \/ /\ xy[1].winners = xy[2].winners
                         /\ xy[1].runners_up > xy[2].runners_up}
    IN  fetch_all(Orderings(rows, Before), failed)

\* ORDER BY winners DESC, runners_up DESC
get_performance_summary(d, failed) ==
    LET rows == {SummaryRow(d, d.students[u].department) :
                    u \in JoinedStudents(d)}
        Before == {xy \in rows \X rows :
                      \/ xy[1].winners > xy[2].winners
                      \/ /\ xy[1].winners = xy[2].winners
                         /\ xy[1].runners_up > xy[2].runners_up}
    IN  fetch_all(Orderings(rows, Before), failed)

\* events e LEFT JOIN participation p ON e.event_id = p.event_id, GROUP BY
\* e.event_type: the events of a type and their rows
TypeEvents(d, event_type) ==
    {e \in DOMAIN d.events : d.events[e].event_type = event_type}

TypeRows(d, event_type) ==
    {x \in BagRows(d.participation) :
        x.row.event_id \in TypeEvents(d, event_type)}

\* COUNT(p.usn) without DISTINCT
TypeStudents_NotDistinct(d, event_type) ==
    Cardinality(TypeRows(d, event_type))

\* COUNT(DISTINCT p.usn)
TypeStudents(d, event_type) ==
    Cardinality({x.row.usn : x \in TypeRows(d, event_type)})

TypeRow(d, event_type) ==
    [event_type |-> event_type,
     total_events |-> Cardinality(TypeEvents(d, event_type)),
     total_unique_students |-> TypeStudents(d, event_type),
     total_participations |-> Cardinality(TypeRows(d, event_type))]

get_event_type_statistics(d, failed) ==
    LET rows == {TypeRow(d, d.events[e].event_type) : e \in DOMAIN d.events}
        Before == {xy \in rows \X rows :
                      xy[1].total_participations > xy[2].total_participations}
    IN  fetch_all(Orderings(rows, Before), failed)

\* DATE_FORMAT(e.event_date, '%Y-%m'): the year and month of a date; the
\* text values compare as the pairs <<year, month>> do
Month(event_date) == <<event_date[1], event_date[2]>>

MonthEvents(d, month) ==
    {e \in DOMAIN d.events : Month(d.events[e].event_date) = month}

MonthRows(d, month) ==
    {x \in BagRows(d.participation) : x.row.event_id \in MonthEvents(d, month)}

MonthRow(d, month) ==
    [month |-> month,
     total_events |-> Cardinality(MonthEvents(d, month)),
     total_participants |->
        Cardinality({x.row.usn : x \in MonthRows(d, month)}),
     total_participations |-> Cardinality(MonthRows(d, month))]

\* the query has no WHERE clause and the method no parameter: every month
\* that has an event, of whatever year, ORDER BY month
get_monthly_event_summary(d, failed) ==
    LET rows == {MonthRow(d, Month(d.events[e].event_date)) :
                    e \in DOMAIN d.events}
        Before == {xy \in rows \X rows :
                      \/ xy[1].month[1] < xy[2].month[1]
                      \/ /\ xy[1].month[1] = xy[2].month[1]
                         /\ xy[1].month[2] < xy[2].month[2]}
    IN  fetch_all(Orderings(rows, Before), failed)

\* the order of the DATE values <<year, month, day>>
DateBefore(a, b) ==
    \/ a[1] < b[1]
    \/ a[1] = b[1] /\ a[2] < b[2]
    \/ a[1] = b[1] /\ a[2] = b[2] /\ a[3] < b[3]

\* SELECT * FROM events WHERE ...: the rows of the events in E
SelectEvents(d, E) == UNION {EventRows(d, e) : e \in E}

\* WHERE event_date > CURDATE()
get_upcoming_events_AfterToday(d, today, failed) ==
    LET rows == SelectEvents(d, {e \in DOMAIN d.events :
                                    DateBefore(today, d.events[e].event_date)})
        Before == {xy \in rows \X rows :
                      DateBefore(xy[1].event_date, xy[2].event_date)}
    IN  fetch_all(Orderings(rows, Before), failed)

\* WHERE event_date >= CURDATE() ORDER BY event_date ASC; today is the
\* engine's CURDATE() when the statement runs
get_upcoming_events(d, today, failed) ==
    LET rows == SelectEvents(d, {e \in DOMAIN d.events :
                                    ~DateBefore(d.events[e].event_date, today)})
        Before == {xy \in rows \X rows :
                      DateBefore(xy[1].event_date, xy[2].event_date)}
    IN  fetch_all(Orderings(rows, Before), failed)

\* WHERE event_date < CURDATE() ORDER BY event_date DESC
get_past_events(d, today, failed) ==
    LET rows == SelectEvents(d, {e \in DOMAIN d.events :
                                    DateBefore(d.events[e].event_date, today)})
        Before == {xy \in rows \X rows :
                      DateBefore(xy[2].event_date, xy[1].event_date)}
    IN  fetch_all(Orderings(rows, Before), failed)

get_department_wise_participation(d, failed) ==
    LET rows == {DepartmentRow(d, d.students[u].department) :
                    u \in DOMAIN d.students}
        Before == {xy \in rows \X rows :
                      xy[1].total_participations > xy[2].total_participations}
    IN  fetch_all(Orderings(rows, Before), failed)

\* ------------------------------------------------------- read operations
\* the read operations of the Registry, the Ledger and the Reporting
\* Engine, each with the primitive its one statement, a SELECT, is run with
ReadOperations ==
    [get_all_students |-> "fetch_all",
     get_student_by_usn |-> "fetch_one",
     search_students |-> "fetch_all",
     get_student_events |-> "fetch_all",
     get_all_events |-> "fetch_all",
     get_event_by_id |-> "fetch_one",
     search_events |-> "fetch_all",
     get_upcoming_events |-> "fetch_all",
     get_past_events |-> "fetch_all",
     get_department_events |-> "fetch_all",
     get_event_participants |-> "fetch_all",
     get_participation |-> "fetch_one",
     get_all_participations |-> "fetch_all",
     get_event_winners |-> "fetch_all",
     get_student_achievements |-> "fetch_all",
     get_top_participating_students |-> "fetch_all",
     get_department_wise_participation |-> "fetch_all",
     get_events_by_participation |-> "fetch_all",
     get_performance_summary |-> "fetch_all",
     get_event_type_statistics |-> "fetch_all",
     get_monthly_event_summary |-> "fetch_all",
     get_top_performers |-> "fetch_all"]

\* a SELECT that empties the table it reads
Select_Purges(d) == Done([d EXCEPT !.participation = EmptyBag])

\* a SELECT changes no row
Select(d) == Done(d)

\* the store after cursor.execute(statement) under a primitive: what the
\* statement did, which execute_query alone goes on to commit; an Error
\* leaves the store as it was
Executed(d, outcome, failed) ==
    IF failed \/ outcome.err THEN d ELSE outcome.db

\* ---------------------------------------------------------- reports menu
\* the methods of class ReportsModule, each with the numbers of arguments
\* it can be called with
ReportsModule ==
    [get_top_participating_students |-> 0 .. 1,
     get_department_wise_participation |-> {0},
     get_events_by_participation |-> 0 .. 1,
     get_performance_summary |-> {0},
     get_event_type_statistics |-> {0},
     get_monthly_event_summary |-> {0},
     get_top_performers |-> 0 .. 1,
     format_report_table |-> {2},
     save_report_to_file |-> 1 .. 2,
     generate_comprehensive_report |-> {0}]

\* self.reports_module.name(args): the attribute lookup raises
\* AttributeError for a name the class does not define, the call raises
\* TypeError for a number of arguments the method does not take
Invoke(name, args) ==
    IF name \notin DOMAIN ReportsModule THEN "AttributeError"
    ELSE IF Len(args) \notin ReportsModule[name] THEN "TypeError"
    ELSE "called"

\* what a method that was called returns: the possible result sequences
Report(d, name, args, failed) ==
    CASE name = "get_top_participating_students" ->
           get_top_participating_students(d, args[1], failed)
      [] name = "get_department_wise_participation" ->
           get_department_wise_participation(d, failed)
      [] name = "get_events_by_participation" ->
           get_events_by_participation(d, args[1], failed)
      [] name = "get_performance_summary" ->
           get_performance_summary(d, failed)
      [] name = "get_event_type_statistics" ->
           get_event_type_statistics(d, failed)
      [] name = "get_monthly_event_summary" ->
           get_monthly_event_summary(d, failed)
      [] name = "get_top_performers" ->
           get_top_performers(d, args[1], failed)
      [] OTHER -> {<< >>}

\* item['field'] for every row shown: KeyError for a field the row lacks;
\* an empty result is reported as "no data" before any row is read
Shown(rows, fields) ==
    IF rows = << >> THEN "returned"
    ELSE IF \A i \in DOMAIN rows : fields \subseteq DOMAIN rows[i]
    THEN "returned"
    ELSE "KeyError"

\* one menu action: the outcomes of calling the method and showing each
\* result the engine may give
Show(d, name, args, fields, failed) ==
    IF Invoke(name, args) # "called" THEN {Invoke(name, args)}
    ELSE {Shown(rows, fields) : rows \in Report(d, name, args, failed)}

\* limit = int(limit) if limit else 10, and 10 on ValueError
MenuLimit(text) ==
    IF TruthyText(text) /\ IntOfText(text).ok THEN IntOfText(text).v
    ELSE DefaultLimit

show_top_students(d, limit, failed) ==
    Show(d, "get_top_participating_students", <<MenuLimit(limit)>>,
         {"usn", "name", "department", "year", "participation_count"}, failed)

show_department_participation(d, failed) ==
    Show(d, "get_department_wise_participation", << >>,
         {"department", "total_students", "unique_events_participated",
          "total_participations", "avg_per_student"}, failed)

show_events_by_participation(d, limit, failed) ==
    Show(d, "get_events_by_participation", <<MenuLimit(limit)>>,
         {"event_id", "name", "event_type", "department",
          "participant_count"}, failed)

show_performance_summary(d, failed) ==
    Show(d, "get_performance_summary", << >>, {"count", "performance"},
         failed)

show_event_type_statistics(d, failed) ==
    Show(d, "get_event_type_statistics", << >>,
         {"total_participants", "total_events", "event_type"}, failed)

\* year = datetime.now().year when the text is empty or not an int
MenuYear(text, this_year) ==
    IF TruthyText(text) /\ IntOfText(text).ok THEN IntOfText(text).v
    ELSE this_year

show_monthly_summary(d, year, this_year, failed) ==
    Show(d, "get_monthly_summary", <<MenuYear(year, this_year)>>,
         {"month", "event_count", "participant_count", "winner_count",
          "runner_up_count"}, failed)

show_top_performers(d, limit, failed) ==
    Show(d, "get_top_performers", <<MenuLimit(limit)>>,
         {"winner_count", "runner_up_count", "usn", "name", "department"},
         failed)

\* the menu's generate_comprehensive_report: the method returns a text,
\* which is never empty, and report['summary'] on a text is a TypeError
generate_comprehensive_report(year, department, event_type) ==
    IF Invoke("generate_comprehensive_report",
              <<year, department, event_type>>) # "called"
    THEN {Invoke("generate_comprehensive_report",
                 <<year, department, event_type>>)}
    ELSE {"TypeError"}

\* ------------------------------------------------------ gateway session
\* connection: "None" (never assigned), "live", or "dead" (assigned, and
\*   is_connected() answers False: dropped, server gone, or closed)
\* cursor: "None" (never assigned), "dict" or "plain"
\* engine.database: "missing", "empty" (created, no tables) or "ready"
Connections == {"None", "live", "dead"}
Cursors == {"None", "dict", "plain"}
Databases == {"missing", "empty", "ready"}
Engines ==
    [server : BOOLEAN, database : Databases, schema_file : BOOLEAN,
     may_create : BOOLEAN]

\* connect(): [gateway, engine, exited]; exited = TRUE is sys.exit(1)
connect(g, e) ==
    IF ~e.server
    THEN \* mysql.connector.connect raises an Error that does not name an
         \* unknown database: it is printed and connect returns
         [gateway |-> g, engine |-> e, exited |-> FALSE]
    ELSE IF e.database # "missing"
    THEN [gateway |-> [connection |-> "live", cursor |-> "dict"],
          engine |-> e, exited |-> FALSE]
    ELSE IF ~e.may_create
    THEN \* CREATE DATABASE raises Error: sys.exit(1)
         [gateway |-> [connection |-> "live", cursor |-> "plain"],
          engine |-> e, exited |-> TRUE]
    ELSE IF ~e.schema_file
    THEN \* the database is created, the schema file is not found: sys.exit(1)
         [gateway |-> [connection |-> "live", cursor |-> "plain"],
          engine |-> [e EXCEPT !.database = "empty"], exited |-> TRUE]
    ELSE [gateway |-> [connection |-> "live", cursor |-> "dict"],
          engine |-> [e EXCEPT !.database = "ready"], exited |-> FALSE]

\* the value a primitive returns when it catches an Error, and on success
FailureValue(op) ==
    CASE op = "execute_query" -> "False"
      [] op = "fetch_all" -> "empty"
      [] op = "fetch_one" -> "None"
SuccessValue(op) ==
    CASE op = "execute_query" -> "True"
      [] op = "fetch_all" -> "rows"
      [] op = "fetch_one" -> "row"

Primitives == {"execute_query", "fetch_all", "fetch_one"}

\* a primitive that reconnects before every statement
Reconnects_Always(g) == TRUE

\* if not self.connection or not self.connection.is_connected()
Reconnects(g) == g.connection # "live"

\* execute_query, fetch_all and fetch_one share their shape: reconnect when
\* there is no live connection, run the statement on the cursor, return the
\* failure value on an Error.  statement_ok: the engine takes the statement.
\* out is "returned", "raised" (an exception that is not an Error leaves the
\* primitive) or "exited" (SystemExit from connect).
\* connects counts the calls of connect() the primitive makes, executes
\* its calls of cursor.execute, and session says what the statement was
\* handed to: the session that was "live" at the call, the "new" one of the
\* reconnection, the "stale" cursor of the lost one, or "none".
primitive(op, g, e, statement_ok) ==
    LET c == IF Reconnects(g) THEN connect(g, e)
             ELSE [gateway |-> g, engine |-> e, exited |-> FALSE]
        connects == IF Reconnects(g) THEN 1 ELSE 0
        session == IF c.gateway.connection # "live" THEN "stale"
                   ELSE IF connects = 1 THEN "new" ELSE "live"
    IN  IF c.exited
        THEN [gateway |-> c.gateway, engine |-> c.engine,
              out |-> "exited", value |-> "SystemExit",
              connects |-> connects, executes |-> 0, session |-> "none"]
        ELSE IF c.gateway.cursor = "None"
        THEN [gateway |-> c.gateway, engine |-> c.engine,
              out |-> "raised", value |-> "AttributeError",
              connects |-> connects, executes |-> 0, session |-> "none"]
        ELSE IF c.gateway.connection # "live" \/ c.engine.database # "ready"
                  \/ ~statement_ok
        THEN [gateway |-> c.gateway, engine |-> c.engine,
              out |-> "returned", value |-> FailureValue(op),
              connects |-> connects, executes |-> 1, session |-> session]
        ELSE [gateway |-> c.gateway, engine |-> c.engine,
              out |-> "returned", value |-> SuccessValue(op),
              connects |-> connects, executes |-> 1, session |-> session]

\* db = DatabaseConnection(): the constructor runs connect() once, whatever
\* the engine's condition; a process that got past it is running
InitGateway ==
    /\ EmptyStore
    /\ \E e \in Engines :
        LET c == connect([connection |-> "None", cursor |-> "None"], e)
        IN  /\ ~c.exited
            /\ gateway = c.gateway
            /\ engine = c.engine
    /\ process = "running"
    /\ result = [op |-> "none", out |-> "none"]
    /\ sessions = [s \in Sessions |-> Idle]

Store == <<students, events, participation, nextEventId>>

GatewayCall(op) ==
    \E statement_ok \in BOOLEAN :
        LET r == primitive(op, gateway, engine, statement_ok)
        IN  /\ gateway' = r.gateway
            /\ engine' = r.engine
            /\ process' = IF r.out = "exited" THEN "exited" ELSE "running"
            /\ result' = [op |-> op, out |-> r.out, value |-> r.value,
                          before |-> gateway.connection,
                          after |-> r.gateway.connection,
                          connects |-> r.connects, executes |-> r.executes,
                          session |-> r.session]
            /\ UNCHANGED <<Store, sessions>>

ExecuteQuery ==
    /\ process = "running"
    /\ GatewayCall("execute_query")

FetchAll ==
    /\ process = "running"
    /\ GatewayCall("fetch_all")

FetchOne ==
    /\ process = "running"
    /\ GatewayCall("fetch_one")

\* close(): closes cursor and connection when connected
Close ==
    /\ process = "running"
    /\ gateway' = IF gateway.connection = "live"
                  THEN [gateway EXCEPT !.connection = "dead"] ELSE gateway
    /\ UNCHANGED <<Store, engine, process, result, sessions>>

\* the engine's side: the server stops (every session of it is lost) or
\* starts, the session drops, the database is dropped, the schema file and
\* the right to create a database come and go
ServerStops ==
    /\ process = "running" /\ engine.server
    /\ engine' = [engine EXCEPT !.server = FALSE]
    /\ gateway' = IF gateway.connection = "live"
                  THEN [gateway EXCEPT !.connection = "dead"] ELSE gateway
    /\ UNCHANGED <<Store, process, result, sessions>>

ServerStarts ==
    /\ process = "running" /\ ~engine.server
    /\ engine' = [engine EXCEPT !.server = TRUE]
    /\ UNCHANGED <<Store, gateway, process, result, sessions>>

SessionDrops ==
    /\ process = "running" /\ gateway.connection = "live"
    /\ gateway' = [gateway EXCEPT !.connection = "dead"]
    /\ UNCHANGED <<Store, engine, process, result, sessions>>

DatabaseDropped ==
    /\ process = "running" /\ engine.server /\ engine.database # "missing"
    /\ engine' = [engine EXCEPT !.database = "missing"]
    /\ UNCHANGED <<Store, gateway, process, result, sessions>>

SchemaFileChanges ==
    /\ process = "running"
    /\ engine' = [engine EXCEPT !.schema_file = ~@]
    /\ UNCHANGED <<Store, gateway, process, result, sessions>>

CreateRightChanges ==
    /\ process = "running"
    /\ engine' = [engine EXCEPT !.may_create = ~@]
    /\ UNCHANGED <<Store, gateway, process, result, sessions>>

NextGateway ==
    \/ ExecuteQuery
    \/ FetchAll
    \/ FetchOne
    \/ Close
    \/ ServerStops
    \/ ServerStarts
    \/ SessionDrops
    \/ DatabaseDropped
    \/ SchemaFileChanges
    \/ CreateRightChanges

SpecGateway == InitGateway /\ [][NextGateway]_vars

\* the reports, run on stores of at most MaxReportRows participation rows
RegisterForReport ==
    \E usn \in ReportScope.ledger_usn, event_id \in ReportScope.event_id,
       performance \in ReportScope.performance :
        /\ WithinBounds(DB, ReportScope)
        /\ BagCardinality(register_participation(DB, usn, event_id,
                              performance, {}).db.participation)
             <= MaxReportRows
        /\ RegisterParticipationCall(usn, event_id, performance, {})

NextReports ==
    \/ AddStudent(ReportScope, NoFaults)
    \/ UpdateStudent(ReportScope, NoFaults)
    \/ DeleteStudent(ReportScope, NoFaults)
    \/ AddEvent(ReportScope, NoFaults)
    \/ UpdateEvent(ReportScope, NoFaults)
    \/ DeleteEvent(ReportScope, NoFaults)
    \/ RegisterForReport
    \/ UpdatePerformance(ReportScope, NoFaults)
    \/ DeleteParticipation(ReportScope, NoFaults)

SpecReports == Init /\ [][NextReports]_vars

\* the counting reports, run on stores of at most MaxCountRows rows
RegisterForCount ==
    \E usn \in CountScope.ledger_usn, event_id \in CountScope.event_id,
       performance \in CountScope.performance :
        /\ WithinBounds(DB, CountScope)
        /\ BagCardinality(register_participation(DB, usn, event_id,
                              performance, {}).db.participation)
             <= MaxCountRows
        /\ RegisterParticipationCall(usn, event_id, performance, {})

NextCounts ==
    \/ AddStudent(CountScope, NoFaults)
    \/ UpdateStudent(CountScope, NoFaults)
    \/ DeleteStudent(CountScope, NoFaults)
    \/ AddEvent(CountScope, NoFaults)
    \/ UpdateEvent(CountScope, NoFaults)
    \/ DeleteEvent(CountScope, NoFaults)
    \/ RegisterForCount
    \/ UpdatePerformance(CountScope, NoFaults)
    \/ DeleteParticipation(CountScope, NoFaults)

SpecCounts == Init /\ [][NextCounts]_vars

\* the event statistics, run on stores of at most MaxCountRows rows
RegisterForCalendar ==
    \E usn \in CalendarScope.ledger_usn, event_id \in CalendarScope.event_id,
       performance \in CalendarScope.performance :
        /\ WithinBounds(DB, CalendarScope)
        /\ BagCardinality(register_participation(DB, usn, event_id,
                              performance, {}).db.participation)
             <= MaxCountRows
        /\ RegisterParticipationCall(usn, event_id, performance, {})

NextCalendar ==
    \/ AddStudent(CalendarScope, NoFaults)
    \/ UpdateStudent(CalendarScope, NoFaults)
    \/ DeleteStudent(CalendarScope, NoFaults)
    \/ AddEvent(CalendarScope, NoFaults)
    \/ UpdateEvent(CalendarScope, NoFaults)
    \/ DeleteEvent(CalendarScope, NoFaults)
    \/ RegisterForCalendar
    \/ UpdatePerformance(CalendarScope, NoFaults)
    \/ DeleteParticipation(CalendarScope, NoFaults)

SpecCalendar == Init /\ [][NextCalendar]_vars

\* the Reports menu: reports_menu calls the chosen action; an exception
\* that leaves it leaves run() as well and reaches the handler of __main__,
\* which prints it and calls sys.exit(1)
LimitTexts == {<< >>, <<"1">>, <<"x">>, <<"-", "1">>}
YearTexts == {<< >>, <<"2", "0", "2", "5">>, <<"x">>}

MenuAction(op, outcomes) ==
    \E out \in outcomes :
        /\ result' = [op |-> op,
                      out |-> IF out = "returned" THEN "returned"
                              ELSE "raised",
                      value |-> out]
        /\ process' = IF out = "returned" THEN "running" ELSE "exited"
        /\ UNCHANGED <<Store, gateway, engine, sessions>>

ShowTopStudents ==
    /\ process = "running"
    /\ \E limit \in LimitTexts, failed \in BOOLEAN :
        MenuAction("show_top_students", show_top_students(DB, limit, failed))

ShowDepartmentParticipation ==
    /\ process = "running"
    /\ \E failed \in BOOLEAN :
        MenuAction("show_department_participation",
                   show_department_participation(DB, failed))

ShowEventsByParticipation ==
    /\ process = "running"
    /\ \E limit \in LimitTexts, failed \in BOOLEAN :
        MenuAction("show_events_by_participation",
                   show_events_by_participation(DB, limit, failed))

ShowPerformanceSummary ==
    /\ process = "running"
    /\ \E failed \in BOOLEAN :
        MenuAction("show_performance_summary",
                   show_performance_summary(DB, failed))

ShowEventTypeStatistics ==
    /\ process = "running"
    /\ \E failed \in BOOLEAN :
        MenuAction("show_event_type_statistics",
                   show_event_type_statistics(DB, failed))

ShowMonthlySummary ==
    /\ process = "running"
    /\ \E year \in YearTexts, this_year \in {2025, 2026},
          failed \in BOOLEAN :
        MenuAction("show_monthly_summary",
                   show_monthly_summary(DB, year, this_year, failed))

ShowTopPerformers ==
    /\ process = "running"
    /\ \E limit \in LimitTexts, failed \in BOOLEAN :
        MenuAction("show_top_performers",
                   show_top_performers(DB, limit, failed))

\* year is None when the text is empty or not an int
GenerateComprehensiveReport ==
    /\ process = "running"
    /\ \E year \in {NULL, 2025}, department \in {"", "CSE"},
          event_type \in {"", "Technical"} :
        MenuAction("generate_comprehensive_report",
                   generate_comprehensive_report(year, department,
                                                 event_type))

\* a read operation called on its own: its SELECT is run by fetch_all or
\* fetch_one and the rows, [] or None are returned
ReadOperation ==
    /\ process = "running"
    /\ \E op \in DOMAIN ReadOperations, failed \in BOOLEAN :
        LET d == Executed(DB, Select(DB), failed)
        IN  /\ students' = d.students
            /\ events' = d.events
            /\ participation' = d.participation
            /\ nextEventId' = d.nextEventId
            /\ result' = [op |-> op, out |-> "returned",
                          value |-> IF failed
                                    THEN FailureValue(ReadOperations[op])
                                    ELSE SuccessValue(ReadOperations[op])]
            /\ UNCHANGED <<gateway, engine, process, sessions>>

MenuOps ==
    {"show_top_students", "show_department_participation",
     "show_events_by_participation", "show_performance_summary",
     "show_event_type_statistics", "show_monthly_summary",
     "show_top_performers", "generate_comprehensive_report"}

NextMenu ==
    \/ AddStudent(MenuScope, NoFaults)
    \/ UpdateStudent(MenuScope, NoFaults)
    \/ DeleteStudent(MenuScope, NoFaults)
    \/ AddEvent(MenuScope, NoFaults)
    \/ UpdateEvent(MenuScope, NoFaults)
    \/ DeleteEvent(MenuScope, NoFaults)
    \/ RegisterParticipation(MenuScope, NoFaults)
    \/ UpdatePerformance(MenuScope, NoFaults)
    \/ DeleteParticipation(MenuScope, NoFaults)
    \/ ShowTopStudents
    \/ ShowDepartmentParticipation
    \/ ShowEventsByParticipation
    \/ ShowPerformanceSummary
    \/ ShowEventTypeStatistics
    \/ ShowMonthlySummary
    \/ ShowTopPerformers
    \/ GenerateComprehensiveReport
    \/ ReadOperation

SpecMenu == Init /\ [][NextMenu]_vars

\* ------------------------------------------------- concurrent sessions
\* Several runs of the application work on the one database.  A handler is
\* a sequence of gateway statements, each committed on its own; between two
\* statements of one run any statement of another run may be executed.
SessionScope ==
    [usn |-> {U1}, name |-> {"Asha"}, department |-> {"CSE"},
     year |-> {IntYear(1)},
     event_name |-> {"Hack"}, event_type |-> {"Technical"},
     event_department |-> {"CSE"}, event_date |-> {D1},
     event_id |-> 1 .. MaxRegistryEventId,
     performance |-> {"Winner", "Participant"},
     maxStudents |-> MaxStudents, maxEventId |-> MaxRegistryEventId]

SessionHandlers == {"register_participation", "delete_student", "delete_event"}

StoreBecomes(d) ==
    /\ students' = d.students
    /\ events' = d.events
    /\ participation' = d.participation
    /\ nextEventId' = d.nextEventId

\* the handler of session s returns to its menu
Returns(s, outcome, error) ==
    sessions' = [sessions EXCEPT ![s].pc = "menu", ![s].outcome = outcome,
                                 ![s].error = error]

GoesTo(s, pc) == sessions' = [sessions EXCEPT ![s].pc = pc]

\* a menu item is chosen: the handler is entered with its arguments and
\* validates them; the first statement of each handler is a lookup
Begin(s) ==
    /\ sessions[s].pc = "menu"
    /\ \E op \in SessionHandlers, usn \in SessionScope.usn,
          event_id \in SessionScope.event_id,
          performance \in SessionScope.performance :
        LET entered ==
              [pc |-> "validate", op |-> op,
               usn |-> IF op = "delete_event" THEN << >> ELSE usn,
               event_id |-> IF op = "delete_student" THEN 0 ELSE event_id,
               performance |-> IF op = "register_participation"
                               THEN performance ELSE "none",
               existing |-> "none", outcome |-> "none", error |-> "none"]
            valid ==
              op = "register_participation" =>
                  /\ TruthyText(usn) /\ TruthyId(event_id)
                  /\ performance \in valid_performances
        IN  sessions' =
              [sessions EXCEPT ![s] =
                 IF ~valid
                 THEN [entered EXCEPT !.pc = "menu", !.outcome = "refused"]
                 ELSE [entered EXCEPT !.pc = IF op = "delete_event"
                                             THEN "get_event_by_id"
                                             ELSE "get_student_by_usn"]]
    /\ UNCHANGED <<Store, gateway, engine, process, result>>

\* student = get_student_by_usn(usn); if not student: return
StudentLookup(s) ==
    /\ sessions[s].pc = "get_student_by_usn"
    /\ \E failed \in BOOLEAN :
        IF get_student_by_usn(DB, sessions[s].usn, failed) = None
        THEN Returns(s, "not found", "none")
        ELSE GoesTo(s, IF sessions[s].op = "delete_student"
                       THEN "execute_query" ELSE "get_event_by_id")
    /\ UNCHANGED <<Store, gateway, engine, process, result>>

\* event = get_event_by_id(event_id); if not event: return
EventLookup(s) ==
    /\ sessions[s].pc = "get_event_by_id"
    /\ \E failed \in BOOLEAN :
        IF get_event_by_id(DB, sessions[s].event_id, failed) = None
        THEN Returns(s, "not found", "none")
        ELSE GoesTo(s, IF sessions[s].op = "delete_event"
                       THEN "execute_query" ELSE "get_participation")
    /\ UNCHANGED <<Store, gateway, engine, process, result>>

\* existing = self.get_participation(usn, event_id)
ExistenceCheck(s) ==
    /\ sessions[s].pc = "get_participation"
    /\ \E failed \in BOOLEAN :
        LET existing == get_participation(DB, sessions[s].usn,
                                          sessions[s].event_id, failed)
        IN  sessions' = [sessions EXCEPT
                           ![s].pc = "execute_query",
                           ![s].existing = IF existing # None
                                           THEN "row" ELSE "None"]
    /\ UNCHANGED <<Store, gateway, engine, process, result>>

\* the statement the handler of session s has come to write with
Statement(d, h) ==
    IF h.op = "delete_student" THEN DeleteStudentRow(d, h.usn)
    ELSE IF h.op = "delete_event" THEN DeleteEventRow(d, h.event_id)
    ELSE IF h.existing = "row"
    THEN UpdateParticipationRows(d, h.usn, h.event_id, h.performance)
    ELSE InsertParticipation(d, h.usn, h.event_id, h.performance)

\* why the engine refuses the INSERT, when it does
InsertError(d, h) ==
    IF ~ForeignKeysHold(d, h.usn, h.event_id) THEN "foreign key"
    ELSE IF ~UniquePairFree(d, h.usn, h.event_id) THEN "duplicate"
    ELSE "none"

\* success = db.execute_query(query, ...): the statement is executed and
\* committed, or refused, on the store as it is now
Write(s) ==
    /\ sessions[s].pc = "execute_query"
    /\ \E failed \in BOOLEAN :
        LET h == sessions[s]
            success == execute_query(DB, Statement(DB, h), failed)
        IN  /\ StoreBecomes(success.db)
            /\ IF success.ok
               THEN Returns(s, IF h.op # "register_participation"
                               THEN "deleted"
                               ELSE IF h.existing = "row" THEN "updated"
                               ELSE "registered", "none")
               ELSE Returns(s, "failed",
                            IF failed THEN "gateway"
                            ELSE InsertError(DB, h))
    /\ UNCHANGED <<gateway, engine, process, result>>

NextSessions ==
    \/ AddStudent(SessionScope, NoFaults)
    \/ AddEvent(SessionScope, NoFaults)
    \/ \E s \in Sessions : Begin(s)
    \/ \E s \in Sessions : StudentLookup(s)
    \/ \E s \in Sessions : EventLookup(s)
    \/ \E s \in Sessions : ExistenceCheck(s)
    \/ \E s \in Sessions : Write(s)

SpecSessions == Init /\ [][NextSessions]_vars

\* ------------------------------------------------------------- claims
RowsOf(B, usn, event_id) == Copies(B, Matching(B, usn, event_id))

\* every usn and event id a call can be made with
AnyUsn == UsnInputs \cup DOMAIN students
AnyEventId == EventIdInputs(MaxEventId) \cup DOMAIN events

Same(d, e) ==
    /\ d.students = e.students
    /\ d.events = e.events
    /\ d.participation = e.participation
    /\ d.nextEventId = e.nextEventId

\* C1: in every state reached by any sequence of calls, failing gateway
\* calls included, the participation table holds at most one row for each
\* (usn, event_id) pair.
C1_OneRowPerPair ==
    \A p \in DOMAIN participation :
        RowsOf(participation, p.usn, p.event_id) = 1

\* C1 witness: two pairs are registered, and registering one of them again
\* while the existence check fails is refused by the store.
C1_Witness ==
    /\ BagCardinality(participation) >= 2
    /\ \E p \in DOMAIN participation :
        LET r == register_participation(DB, p.usn, p.event_id, "Winner", {3})
        IN  ~r.ret.ok /\ Same(r.db, DB)


\* C2: register_participation for an existing student and event, on a store
\* that answers: an existing row of the pair gets the new performance, the
\* number of rows stays and the call returns (True, "Updated ..."); with no
\* row, exactly one row with the given performance is inserted and the call
\* returns (True, "Registered ..."); nothing else in the store changes.
\* Hence register(P1) then register(P2) leaves one row, with P2.
C2_RegisterUpserts ==
    \A usn \in DOMAIN students, event_id \in DOMAIN events,
       performance \in valid_performances :
        LET r == register_participation(DB, usn, event_id, performance, {})
            row == [usn |-> usn, event_id |-> event_id,
                    performance |-> performance]
            others == Keep(participation,
                           (DOMAIN participation)
                               \ Matching(participation, usn, event_id))
            again == [q \in valid_performances |->
                        register_participation(r.db, usn, event_id, q, {})]
        IN  /\ ~r.ret.raised /\ r.ret.ok
            /\ r.ret.msg = IF RowsOf(participation, usn, event_id) > 0
                           THEN "Updated participation" ELSE "Registered"
            /\ BagCardinality(r.db.participation) =
                 IF RowsOf(participation, usn, event_id) > 0
                 THEN BagCardinality(participation)
                 ELSE BagCardinality(participation) + 1
            /\ r.db.participation = others (+) SetToBag({row})
            /\ r.db.students = students /\ r.db.events = events
            /\ r.db.nextEventId = nextEventId
            /\ \A q \in valid_performances :
                /\ again[q].ret.ok
                /\ again[q].ret.msg = "Updated participation"
                /\ Matching(again[q].db.participation, usn, event_id) =
                     {[usn |-> usn, event_id |-> event_id, performance |-> q]}
                /\ RowsOf(again[q].db.participation, usn, event_id) = 1

\* C2 witness: a pair registered as Participant for which registering as
\* Winner reports the update and leaves the one row as Winner.
C2_Witness ==
    \E p \in DOMAIN participation :
        LET r == register_participation(DB, p.usn, p.event_id, "Winner", {})
        IN  /\ p.performance = "Participant"
            /\ r.ret.ok /\ r.ret.msg = "Updated participation"
            /\ BagCardinality(r.db.participation) = BagCardinality(participation)
            /\ Matching(r.db.participation, p.usn, p.event_id) =
                 {[p EXCEPT !.performance = "Winner"]}

\* C3: after a successful delete_student(usn) no participation row with that
\* usn remains, after a successful delete_event(event_id) none with that
\* event_id, and get_participation for any pair involving the deleted
\* student or event returns absent; whichever gateway calls failed.
C3_CascadeOnDelete ==
    /\ \A usn \in AnyUsn, f \in Upto(AnyFaults, 2) :
        LET r == delete_student(DB, usn, f)
        IN  r.ret.ok =>
              /\ usn \notin DOMAIN r.db.students
              /\ \A p \in DOMAIN r.db.participation : p.usn # usn
              /\ \A event_id \in AnyEventId, failed \in BOOLEAN :
                  get_participation(r.db, usn, event_id, failed) = None
    /\ \A event_id \in AnyEventId, f \in Upto(AnyFaults, 2) :
        LET r == delete_event(DB, event_id, f)
        IN  r.ret.ok =>
              /\ event_id \notin DOMAIN r.db.events
              /\ \A p \in DOMAIN r.db.participation : p.event_id # event_id
              /\ \A usn \in AnyUsn, failed \in BOOLEAN :
                  get_participation(r.db, usn, event_id, failed) = None

\* C3 witness: a student and an event that both have participation rows,
\* each deleted successfully with the rows gone afterwards.
C3_Witness ==
    \E p \in DOMAIN participation :
        LET rs == delete_student(DB, p.usn, {})
            re == delete_event(DB, p.event_id, {})
        IN  /\ get_participation(DB, p.usn, p.event_id, FALSE) # None
            /\ rs.ret.ok /\ re.ret.ok
            /\ BagCardinality(rs.db.participation) < BagCardinality(participation)
            /\ BagCardinality(re.db.participation) < BagCardinality(participation)
            /\ get_participation(rs.db, p.usn, p.event_id, FALSE) = None
            /\ get_participation(re.db, p.usn, p.event_id, FALSE) = None

\* C4: in every state reached by any sequence of registry and ledger calls,
\* failing gateway calls included, every participation row references a
\* stored student and a stored event and its performance is one of Winner,
\* Runner-up, Participant.
C4_RowsReferenceLiveEntities ==
    \A p \in DOMAIN participation :
        /\ p.usn \in DOMAIN students
        /\ p.event_id \in DOMAIN events
        /\ p.performance \in valid_performances

\* C4 witness: rows exist, a student with rows has been deleted before (an
\* event id is used up and a student slot is free) and the remaining rows
\* reference what is stored.
C4_Witness ==
    /\ participation # EmptyBag
    /\ Cardinality(DOMAIN students) < MaxStudents
    /\ Cardinality(DOMAIN events) < nextEventId - 1
    /\ \E p \in DOMAIN participation : p.performance = "Winner"

\* what the claims say of the arguments
UsnWellFormed(usn) ==
    /\ Len(usn) = 10
    /\ usn[1] \in Digits
    /\ AllIn(usn, 2, 3, Upper)
    /\ AllIn(usn, 4, 5, Digits)
    /\ AllIn(usn, 6, 7, Upper)
    /\ AllIn(usn, 8, 10, Digits)

YearInRange(year) == IntOf(year).ok /\ IntOf(year).v \in 1 .. 5

AllGiven(usn, name, department, year) ==
    TruthyText(usn) /\ Truthy(name) /\ Truthy(department) /\ TruthyYear(year)

\* C5: on a store that answers, add_student returns success and adds exactly
\* one student iff all four fields are non-empty, the usn is a digit, 2
\* uppercase letters, 2 digits, 2 uppercase letters and 3 digits, the year
\* is in 1..5 and the usn is not stored; in every other case it returns
\* (False, message) and the store, a stored student of that usn included, is
\* unchanged.
C5_AddStudentAcceptance ==
    \A usn \in UsnInputs, name \in NameInputs, department \in DeptInputs,
       year \in YearInputs :
        LET r == add_student(DB, usn, name, department, year, {})
            accepted == /\ AllGiven(usn, name, department, year)
                        /\ UsnWellFormed(usn)
                        /\ YearInRange(year)
                        /\ usn \notin DOMAIN students
        IN  /\ ~r.ret.raised
            /\ r.ret.ok <=> accepted
            /\ r.ret.ok =>
                 /\ DOMAIN r.db.students = (DOMAIN students) \cup {usn}
                 /\ usn \notin DOMAIN students
                 /\ \A u \in DOMAIN students : r.db.students[u] = students[u]
            /\ ~r.ret.ok => Same(r.db, DB)

\* the year values the claims name
YearsOutside == {IntYear(0), IntYear(6), StrYear(<<"0">>), StrYear(<<"6">>)}
YearsInside == {IntYear(1), IntYear(5), StrYear(<<" ", "5">>)}

YearsKept(d, e) ==
    \A u \in (DOMAIN d.students) \cap (DOMAIN e.students) :
        e.students[u].year = d.students[u].year

\* C6: every stored student's year is an integer in 1..5 in every reachable
\* state: add_student and update_student refuse year 0 and year 6 and accept
\* year 1 and year 5, and no other operation changes a stored year.
C6_YearInRange ==
    /\ \A u \in DOMAIN students : students[u].year \in 1 .. 5
    /\ \A usn \in UsnInputs, name \in NameInputs, department \in DeptInputs,
          year \in YearInputs :
        LET a == add_student(DB, usn, name, department, year, {})
            b == update_student(DB, usn, name, department, year, {})
        IN  /\ year \in YearsOutside =>
                 ~a.ret.ok /\ ~b.ret.ok /\ Same(a.db, DB) /\ Same(b.db, DB)
            /\ (/\ year \in YearsInside
                /\ Truthy(name) /\ Truthy(department)
                /\ usn \in {U1, U2} \ DOMAIN students) =>
                 a.ret.ok /\ a.db.students[usn].year = IntOf(year).v
            /\ (/\ year \in YearsInside
                /\ Truthy(name) /\ Truthy(department)
                /\ usn \in DOMAIN students) =>
                 b.ret.ok /\ b.db.students[usn].year = IntOf(year).v
            /\ \A u \in (DOMAIN students) \ {usn} :
                 /\ u \in DOMAIN a.db.students => a.db.students[u].year = students[u].year
                 /\ u \in DOMAIN b.db.students => b.db.students[u].year = students[u].year
    /\ \A usn \in AnyUsn : YearsKept(DB, delete_student(DB, usn, {}).db)
    /\ \A name \in EventNameInputs, event_type \in EventTypeInputs,
          department \in DeptInputs, event_date \in DateInputs :
        /\ YearsKept(DB, add_event(DB, name, event_type, department,
                                   event_date, {}).db)
        /\ \A event_id \in AnyEventId :
             YearsKept(DB, update_event(DB, event_id, name, event_type,
                                        department, event_date, {}).db)
    /\ \A event_id \in AnyEventId :
        /\ YearsKept(DB, delete_event(DB, event_id, {}).db)
        /\ \A usn \in AnyUsn :
            /\ YearsKept(DB, delete_participation(DB, usn, event_id, {}).db)
            /\ \A performance \in PerformanceInputs :
                /\ YearsKept(DB, register_participation(DB, usn, event_id,
                                                        performance, {}).db)
                /\ YearsKept(DB, update_performance(DB, usn, event_id,
                                                    performance, {}).db)

\* C6 witness: a student stored with year 5 and one with year 1, for whom an
\* update to year 6 is refused and an update to year 5 is taken.
C6_Witness ==
    \E u, w \in DOMAIN students :
        /\ students[u].year = 5 /\ students[w].year = 1
        /\ ~update_student(DB, w, "Asha", "CSE", IntYear(6), {}).ret.ok
        /\ update_student(DB, w, "Asha", "CSE", IntYear(5), {}).db.students[w].year = 5

StudentRecord(usn, name, department, year) ==
    [usn |-> usn, name |-> name, department |-> department,
     year |-> IntOf(year).v]

\* C7 as stated: update_student fails exactly when no student with the usn
\* is stored or the year is outside 1..5; otherwise it succeeds and
\* get_student_by_usn returns the new name, department and year.
C7_AsStated ==
    \A usn \in UsnInputs, name \in NameInputs, department \in DeptInputs,
       year \in YearInputs :
        LET r == update_student(DB, usn, name, department, year, {})
        IN  /\ ~r.ret.ok <=> (usn \notin DOMAIN students \/ ~YearInRange(year))
            /\ r.ret.ok =>
                 get_student_by_usn(r.db, usn, FALSE) =
                   Some(StudentRecord(usn, name, department, year))

\* C7 (amended): update_student fails with (False, message) when the name or
\* the department is empty, when no student with the usn is stored or when
\* the year is outside 1..5; otherwise it succeeds and get_student_by_usn
\* returns the new name, department and year.
C7_UpdateStudent ==
    \A usn \in UsnInputs, name \in NameInputs, department \in DeptInputs,
       year \in YearInputs :
        LET r == update_student(DB, usn, name, department, year, {})
        IN  /\ ~r.ret.raised
            /\ ~r.ret.ok <=> \/ ~Truthy(name) \/ ~Truthy(department)
                             \/ usn \notin DOMAIN students
                             \/ ~YearInRange(year)
            /\ r.ret.ok =>
                 get_student_by_usn(r.db, usn, FALSE) =
                   Some(StudentRecord(usn, name, department, year))

\* C7 witness: a stored student whose update to other values is taken and
\* read back, and whose update with an empty name is refused.
C7_Witness ==
    \E u \in DOMAIN students :
        LET r == update_student(DB, u, "Ravi", "ECE", StrYear(<<" ", "5">>), {})
        IN  /\ students[u] = [name |-> "Asha", department |-> "CSE", year |-> 1]
            /\ r.ret.ok
            /\ get_student_by_usn(r.db, u, FALSE) =
                 Some([usn |-> u, name |-> "Ravi", department |-> "ECE",
                       year |-> 5])
            /\ ~update_student(DB, u, "", "ECE", IntYear(5), {}).ret.ok

\* C8: update_student changes only the name, department and year of the one
\* student whose usn is given: the set of stored usns, every other student,
\* every event and every participation row stay as they were, whichever
\* gateway calls failed.
C8_UpdateStudentFrame ==
    \A usn \in UsnInputs, name \in NameInputs, department \in DeptInputs,
       year \in YearInputs, f \in Upto(AnyFaults, 2) :
        LET r == update_student(DB, usn, name, department, year, f)
        IN  /\ DOMAIN r.db.students = DOMAIN students
            /\ \A u \in (DOMAIN students) \ {usn} :
                 r.db.students[u] = students[u]
            /\ r.db.events = events
            /\ r.db.participation = participation
            /\ r.db.nextEventId = nextEventId

\* C8 witness: two students, one of them registered for an event; updating
\* the registered one changes its record and nothing else.
C8_Witness ==
    \E p \in DOMAIN participation, w \in DOMAIN students :
        LET r == update_student(DB, p.usn, "Ravi", "ECE", IntYear(5), {})
        IN  /\ w # p.usn
            /\ r.ret.ok
            /\ r.db.students[p.usn] # students[p.usn]
            /\ r.db.students[w] = students[w]
            /\ r.db.participation = participation

\* the usns the ledger claims are tried with
LedgerUsn == {U1, U2, UNoLead, UEmpty} \cup DOMAIN students

\* C9: register_participation returns (False, message) and leaves every
\* participation row as it was when usn or event_id is missing, when the
\* performance is not one of Winner, Runner-up, Participant, when the
\* student is not stored or when the event is not stored, whichever gateway
\* calls failed; the performance is checked before either lookup and the
\* student is looked up before the event.
C9_RegisterRefusals ==
    \A usn \in LedgerUsn, event_id \in AnyEventId,
       performance \in PerformanceInputs :
        LET missing == ~TruthyText(usn) \/ ~TruthyId(event_id)
            badPerformance == performance \notin valid_performances
            noStudent == usn \notin DOMAIN students
            noEvent == event_id \notin DOMAIN events
        IN  (missing \/ badPerformance \/ noStudent \/ noEvent) =>
              \A f \in AnyFaults :
                LET r == register_participation(DB, usn, event_id,
                                                performance, f)
                IN  /\ ~r.ret.raised /\ ~r.ret.ok /\ Same(r.db, DB)
                    /\ (~missing /\ badPerformance) =>
                         r.ret.msg = "Performance must be one of"
                    /\ (~missing /\ ~badPerformance /\ noStudent) =>
                         r.ret.msg = "Student with USN not found"
                    /\ (~missing /\ ~badPerformance /\ ~noStudent
                          /\ 1 \notin f) =>
                         r.ret.msg = "Event with ID not found"

\* C9 witness: one student and one event are stored, another of each is
\* not; the three refusals come in the order of the checks.
C9_Witness ==
    \E u \in DOMAIN students, w \in {U1, U2} \ DOMAIN students,
       e \in DOMAIN events, x \in (1 .. MaxEventId) \ DOMAIN events :
        /\ participation # EmptyBag
        /\ register_participation(DB, w, x, "Champion", {}).ret.msg =
             "Performance must be one of"
        /\ register_participation(DB, w, x, "Winner", {}).ret.msg =
             "Student with USN not found"
        /\ register_participation(DB, u, x, "Winner", {}).ret.msg =
             "Event with ID not found"
        /\ register_participation(DB, w, e, "Winner", {}).db.participation =
             participation

\* C10: update_performance never creates a participation row: with no row
\* for the pair it returns (False, message) and the table is unchanged; with
\* a performance outside the closed set it returns (False, message) and the
\* row is unchanged; otherwise, on a store that answers, it sets that row's
\* performance and nothing else.  Whichever gateway calls fail, the table is
\* left either as it was or with just that row's performance set, and
\* students and events are not touched.
C10_UpdatePerformance ==
    \A usn \in LedgerUsn, event_id \in AnyEventId,
       performance \in PerformanceInputs :
        LET hit == Matching(participation, usn, event_id)
            row == [usn |-> usn, event_id |-> event_id,
                    performance |-> performance]
            updated == Keep(participation, (DOMAIN participation) \ hit)
                         (+) SetToBag({row})
            refused == hit = {} \/ performance \notin valid_performances
        IN  \A f \in AnyFaults :
              LET r == update_performance(DB, usn, event_id, performance, f)
              IN  /\ r.db.students = students /\ r.db.events = events
                  /\ r.db.nextEventId = nextEventId
                  /\ refused => /\ ~r.ret.raised /\ ~r.ret.ok
                                /\ r.db.participation = participation
                  /\ ~refused => r.db.participation \in {participation, updated}
                  /\ (~refused /\ f = {}) =>
                       /\ ~r.ret.raised /\ r.ret.ok
                       /\ r.db.participation = updated

\* C10 witness: two rows; setting one to Winner changes that row only, and
\* setting the performance of a pair without a row is refused.
C10_Witness ==
    \E p, q \in DOMAIN participation, u \in DOMAIN students,
       e \in DOMAIN events :
        LET r == update_performance(DB, p.usn, p.event_id, "Winner", {})
        IN  /\ p # q /\ p.performance = "Participant"
            /\ r.ret.ok
            /\ r.db.participation =
                 Keep(participation, (DOMAIN participation) \ {p})
                   (+) SetToBag({[p EXCEPT !.performance = "Winner"]})
            /\ Matching(participation, u, e) = {}
            /\ ~update_performance(DB, u, e, "Winner", {}).ret.ok

\* C11: delete_participation returns (False, message) and changes nothing
\* when the pair has no row; when it has one, on a store that answers, it
\* returns success and removes exactly that row.  Whichever gateway calls
\* fail, every other participation row, every student and every event is
\* left as it was.
C11_DeleteParticipation ==
    \A usn \in LedgerUsn, event_id \in AnyEventId :
        LET hit == Matching(participation, usn, event_id)
            others == Keep(participation, (DOMAIN participation) \ hit)
        IN  \A f \in AnyFaults :
              LET r == delete_participation(DB, usn, event_id, f)
              IN  /\ r.db.students = students /\ r.db.events = events
                  /\ r.db.nextEventId = nextEventId
                  /\ r.db.participation \in {participation, others}
                  /\ hit = {} => /\ ~r.ret.raised /\ ~r.ret.ok
                                 /\ r.db.participation = participation
                  /\ (hit # {} /\ f = {}) =>
                       /\ ~r.ret.raised /\ r.ret.ok
                       /\ r.db.participation = others
                       /\ BagCardinality(r.db.participation) =
                            BagCardinality(participation) - 1

\* C11 witness: a student with rows for two events and another student with
\* a row; deleting one pair removes that row and keeps the other two, and
\* deleting a pair without a row is refused.
C11_Witness ==
    \E p, q, o \in DOMAIN participation, e \in DOMAIN events :
        LET r == delete_participation(DB, p.usn, p.event_id, {})
        IN  /\ q.usn = p.usn /\ q.event_id # p.event_id /\ o.usn # p.usn
            /\ r.ret.ok
            /\ DOMAIN r.db.participation = (DOMAIN participation) \ {p}
            /\ Matching(participation, o.usn, e) = {}
            /\ ~delete_participation(DB, o.usn, e, {}).ret.ok

\* the messages of a validation failure and of a not-found failure
Refusals ==
    {"All fields are required",
     "Invalid USN format. Expected format: 1MS21CS001",
     "Year must be between 1 and 5",
     "Invalid date format. Use YYYY-MM-DD",
     "Student USN and Event ID are required",
     "Performance must be one of",
     "Student with USN not found",
     "Event with ID not found",
     "No participation record found for this student and event"}

\* a call that ended in a refusal gave back a pair and wrote nothing
Clean(r) ==
    r.ret.msg \in Refusals => ~r.ret.raised /\ ~r.ret.ok /\ Same(r.db, DB)

Refused(r) ==
    ~r.ret.raised /\ ~r.ret.ok /\ r.ret.msg \in Refusals /\ Same(r.db, DB)

\* the argument values the refusals are tried with
ProbeUsn == {U1, U2, UNoLead, UEmpty}
ProbeName == {"", "Asha"}
ProbeDepartment == {"", "CSE"}
ProbeYear == {IntYear(1), IntYear(6), StrYear(<< >>), StrYear(<<"x">>)}
ProbePerformance == {"Winner", "Champion", ""}
BadDates == {<< >>, DBadFormat, DBadDay}

\* C12 (students): add_student, update_student and delete_student that end
\* in a validation or not-found failure return (False, message), do not
\* raise and leave the store as it was, whichever gateway calls fail.
C12_StudentRefusals ==
    /\ \A usn \in ProbeUsn, name \in ProbeName,
          department \in ProbeDepartment, year \in ProbeYear,
          f \in Upto(AnyFaults, 2) :
        LET a == add_student(DB, usn, name, department, year, f)
            b == update_student(DB, usn, name, department, year, f)
            invalid == ~AllGiven(usn, name, department, year)
                         \/ ~YearInRange(year)
        IN  /\ Clean(a) /\ Clean(b)
            /\ (invalid \/ usn = UNoLead) => Refused(a)
            /\ (invalid \/ usn \notin DOMAIN students) => Refused(b)
    /\ \A usn \in ProbeUsn, f \in Upto(AnyFaults, 2) :
        LET r == delete_student(DB, usn, f)
        IN  Clean(r) /\ (usn \notin DOMAIN students => Refused(r))

\* C12 (events): the same of add_event, update_event and delete_event.
C12_EventRefusals ==
    /\ \A name \in EventNameInputs, event_type \in EventTypeInputs,
          department \in ProbeDepartment, event_date \in DateInputs,
          f \in Upto(AnyFaults, 2) :
        LET a == add_event(DB, name, event_type, department, event_date, f)
            invalid == ~Truthy(name) \/ ~Truthy(event_type)
                         \/ ~Truthy(department) \/ event_date \in BadDates
        IN  /\ Clean(a)
            /\ invalid => Refused(a)
            /\ \A event_id \in AnyEventId :
                 LET b == update_event(DB, event_id, name, event_type,
                                       department, event_date, f)
                 IN  /\ Clean(b)
                     /\ (invalid \/ event_id \notin DOMAIN events) =>
                          Refused(b)
    /\ \A event_id \in AnyEventId, f \in Upto(AnyFaults, 2) :
        LET r == delete_event(DB, event_id, f)
        IN  Clean(r) /\ (event_id \notin DOMAIN events => Refused(r))

\* C12 (ledger): the same of register_participation, update_performance and
\* delete_participation.
C12_LedgerRefusals ==
    \A usn \in ProbeUsn, event_id \in AnyEventId :
        LET noRow == Matching(participation, usn, event_id) = {}
            noPair == \/ ~TruthyText(usn) \/ ~TruthyId(event_id)
                      \/ usn \notin DOMAIN students
                      \/ event_id \notin DOMAIN events
        IN  \A f \in AnyFaults :
              /\ LET r == delete_participation(DB, usn, event_id, f)
                 IN  Clean(r) /\ (noRow => Refused(r))
              /\ \A performance \in ProbePerformance :
                   LET a == register_participation(DB, usn, event_id,
                                                   performance, f)
                       b == update_performance(DB, usn, event_id,
                                               performance, f)
                       bad == performance \notin valid_performances
                   IN  /\ Clean(a) /\ Clean(b)
                       /\ (bad \/ noPair) => Refused(a)
                       /\ (bad \/ noRow) => Refused(b)

\* C12: every Registry or Ledger mutation that ends in a validation failure
\* or a not-found failure returns a (False, message) pair, never raises and
\* leaves students, events and participation rows identical, whichever
\* gateway calls fail (a lookup that fails reads as not found).
C12_RefusalsWriteNothing ==
    C12_StudentRefusals /\ C12_EventRefusals /\ C12_LedgerRefusals

\* C12 witness: a store with a student, an event and a row, where a lookup
\* that fails makes a stored student read as not found, an update of the
\* stored event with a day that does not exist is refused and a removal of
\* a pair without a row is refused, each leaving the store as it was.
C12_Witness ==
    \E p \in DOMAIN participation, w \in DOMAIN students :
        LET a == delete_student(DB, p.usn, {1})
            b == update_event(DB, p.event_id, "Hack", "Technical", "CSE",
                              DBadDay, {})
            c == delete_participation(DB, w, p.event_id, {})
        IN  /\ w # p.usn /\ Matching(participation, w, p.event_id) = {}
            /\ a.ret.msg = "Student with USN not found" /\ Same(a.db, DB)
            /\ b.ret.msg = "Invalid date format. Use YYYY-MM-DD"
            /\ Same(b.db, DB)
            /\ c.ret.msg = "No participation record found for this student and event"
            /\ Same(c.db, DB)

\* the registry handlers give back a pair whichever gateway calls fail
RegistryReturnsPairs ==
    /\ \A usn \in ProbeUsn, name \in ProbeName,
          department \in ProbeDepartment, year \in ProbeYear,
          f \in Upto(AnyFaults, 2) :
        /\ ~add_student(DB, usn, name, department, year, f).ret.raised
        /\ ~update_student(DB, usn, name, department, year, f).ret.raised
    /\ \A usn \in ProbeUsn, f \in Upto(AnyFaults, 2) :
        ~delete_student(DB, usn, f).ret.raised
    /\ \A name \in EventNameInputs, event_type \in EventTypeInputs,
          department \in ProbeDepartment, event_date \in DateInputs,
          f \in Upto(AnyFaults, 2) :
        /\ ~add_event(DB, name, event_type, department, event_date,
                      f).ret.raised
        /\ \A event_id \in AnyEventId :
             ~update_event(DB, event_id, name, event_type, department,
                           event_date, f).ret.raised
    /\ \A event_id \in AnyEventId, f \in Upto(AnyFaults, 2) :
        ~delete_event(DB, event_id, f).ret.raised

\* the ledger handlers give back a pair as long as the gateway calls in F
\* are the only ones that fail
LedgerReturnsPairs(F) ==
    \A usn \in ProbeUsn, event_id \in AnyEventId, f \in F :
        /\ ~delete_participation(DB, usn, event_id, f).ret.raised
        /\ \A performance \in ProbePerformance :
            /\ ~register_participation(DB, usn, event_id, performance,
                                       f).ret.raised
            /\ ~update_performance(DB, usn, event_id, performance,
                                   f).ret.raised

\* C13: every mutating Registry or Ledger operation returns a (success,
\* message) pair on every path, whichever gateway calls inside it fail; in
\* particular update_performance and delete_participation return a pair
\* when the student or event lookup made after the write returns absent.
C13_AlwaysAPair == RegistryReturnsPairs /\ LedgerReturnsPairs(AnyFaults)

\* what does hold: every handler returns a pair as long as the two lookups
\* that update_performance and delete_participation make after their write
\* (gateway calls 3 and 4) do not fail
C13_PairUnlessLateLookupFails ==
    /\ RegistryReturnsPairs
    /\ LedgerReturnsPairs(Upto(AnyFaults, 2))
    /\ \A usn \in ProbeUsn, event_id \in AnyEventId,
          performance \in ProbePerformance, f \in AnyFaults :
        ~register_participation(DB, usn, event_id, performance, f).ret.raised

\* the state C13 fails in: a stored row whose update or removal is written
\* and whose student lookup afterwards fails
C13_LateLookupRaises ==
    \E p \in DOMAIN participation :
        LET a == update_performance(DB, p.usn, p.event_id, "Winner", {3})
            b == delete_participation(DB, p.usn, p.event_id, {4})
        IN  /\ a.ret.raised /\ a.ret.msg = "TypeError"
            /\ a.db.participation # participation
            /\ b.ret.raised /\ b.ret.msg = "TypeError"
            /\ b.db.participation # participation

\* C14: the gateway primitives never raise to the caller: whatever the
\* engine's condition, a failed connection or reconnection attempt
\* included, execute_query returns False, fetch_all an empty sequence and
\* fetch_one absent when the statement could not be run.
C14_PrimitivesNeverRaise ==
    result.op \in Primitives =>
        /\ result.out = "returned"
        /\ result.value \in {FailureValue(result.op), SuccessValue(result.op)}

\* what does hold: once a cursor was ever obtained, an engine failure that
\* does not lead connect() into creating the database comes back as the
\* primitive's failure value
C14_FailureValueOnceConnected ==
    \A op \in Primitives, statement_ok \in BOOLEAN :
        LET r == primitive(op, gateway, engine, statement_ok)
        IN  (process = "running" /\ gateway.cursor # "None"
               /\ (gateway.connection = "live" \/ ~engine.server
                     \/ engine.database # "missing")) =>
              /\ r.out = "returned"
              /\ (~engine.server \/ engine.database # "ready" \/ ~statement_ok)
                   => r.value = FailureValue(op)

\* the state C14 fails in: the server could not be reached when the gateway
\* was constructed nor at the call, so there is no cursor to run on
C14_NoCursorRaises ==
    /\ process = "running"
    /\ gateway = [connection |-> "None", cursor |-> "None"]
    /\ result.op = "fetch_one" /\ result.out = "raised"
    /\ result.value = "AttributeError"

\* C15: no operation is fatal to the process: whatever storage failure
\* occurs during a gateway call, the process is never terminated from inside
\* the gateway.
C15_NeverFatal == process = "running"

\* the state C15 fails in: a reconnect inside a primitive met a missing
\* database and then a missing schema file or a refused CREATE DATABASE
C15_ReconnectExits ==
    /\ process = "exited"
    /\ result.op \in Primitives /\ result.out = "exited"
    /\ engine.database = "empty" \/ ~engine.may_create

\* the participation rows of an event that count as a win
WinningRows(event_id) ==
    {x \in BagRows(participation) :
        /\ x.row.event_id = event_id
        /\ x.row.performance \in {"Winner", "Runner-up"}}

\* C16: get_event_winners(event_id) returns exactly the participation rows of
\* the event whose performance is Winner or Runner-up, each once, and every
\* Winner row stands before every Runner-up row.
C16_WinnersFirst ==
    \A event_id \in AnyEventId :
        \A res \in get_event_winners(DB, event_id, FALSE) :
            /\ Len(res) = Cardinality(WinningRows(event_id))
            /\ \A x \in WinningRows(event_id) :
                 \E i \in DOMAIN res :
                    /\ res[i].usn = x.row.usn
                    /\ res[i].performance = x.row.performance
            /\ \A i \in DOMAIN res :
                 /\ res[i].performance \in {"Winner", "Runner-up"}
                 /\ \E x \in WinningRows(event_id) :
                      /\ res[i].usn = x.row.usn
                      /\ res[i].performance = x.row.performance
                 /\ res[i].name = students[res[i].usn].name
            /\ \A i, j \in DOMAIN res :
                 (res[i].performance = "Winner"
                    /\ res[j].performance = "Runner-up") => i < j

\* C16 witness: an event with a Runner-up named Asha and a Winner named Zoya
\* (and so after Asha by name); the Winner is returned first.
C16_Witness ==
    \E e \in DOMAIN events, u, w \in DOMAIN students :
        /\ students[u].name = "Asha" /\ students[w].name = "Zoya"
        /\ [usn |-> u, event_id |-> e, performance |-> "Runner-up"]
             \in DOMAIN participation
        /\ [usn |-> w, event_id |-> e, performance |-> "Winner"]
             \in DOMAIN participation
        /\ \A res \in get_event_winners(DB, e, FALSE) :
             /\ Len(res) = 2
             /\ res[1].usn = w /\ res[2].usn = u

\* the limits the reports are asked with
Limits == {0, 1, 2, DefaultLimit}

Min(a, b) == IF a <= b THEN a ELSE b

\* what a row is worth
Weight(performance) ==
    CASE performance = "Winner" -> 3
      [] performance = "Runner-up" -> 2
      [] performance = "Participant" -> 1

RECURSIVE SumOfWeights(_)
SumOfWeights(X) ==
    IF X = {} THEN 0
    ELSE LET x == CHOOSE y \in X : TRUE
         IN  Weight(x.row.performance) + SumOfWeights(X \ {x})

PointsOf(usn) ==
    SumOfWeights({x \in BagRows(participation) : x.row.usn = usn})

\* the students with at least one participation row
Participating == {p.usn : p \in DOMAIN participation}

NoUsnTwice(res) ==
    \A i, j \in DOMAIN res : i # j => res[i].usn # res[j].usn

\* C17: get_top_performers(limit) returns students with at least one row,
\* each with points = 3 x Winner rows + 2 x Runner-up rows + 1 x Participant
\* rows, in order of points descending, the first limit of them; with no
\* participation row it returns the empty sequence.
C17_TopPerformers ==
    \A limit \in Limits :
        \A res \in get_top_performers(DB, limit, FALSE) :
            /\ Len(res) = Min(limit, Cardinality(Participating))
            /\ NoUsnTwice(res)
            /\ \A i \in DOMAIN res :
                 /\ res[i].usn \in Participating
                 /\ res[i].points = PointsOf(res[i].usn)
            /\ \A i, j \in DOMAIN res :
                 i < j => res[i].points >= res[j].points
            /\ \A u \in Participating :
                 (\A i \in DOMAIN res : res[i].usn # u) =>
                   \A i \in DOMAIN res : res[i].points >= PointsOf(u)
            /\ participation = EmptyBag => res = << >>

\* C17 witness: a student with a Runner-up row and a student with a
\* Participant row; the first is ranked first with 2 points, and with limit 1
\* is the only one returned.
C17_Witness ==
    \E p, q \in DOMAIN participation :
        /\ p.usn # q.usn
        /\ p.performance = "Runner-up" /\ q.performance = "Participant"
        /\ \A res \in get_top_performers(DB, DefaultLimit, FALSE) :
             /\ Len(res) = 2
             /\ res[1].usn = p.usn /\ res[1].points = 2
             /\ res[2].usn = q.usn /\ res[2].points = 1
        /\ \A res \in get_top_performers(DB, 1, FALSE) :
             Len(res) = 1 /\ res[1].usn = p.usn

\* r hundredths is n / k rounded to 2 decimals, halves upwards
IsRounded(r, n, k) ==
    /\ r \in Nat
    /\ 0 - k <= 2 * (100 * n - r * k)
    /\ 2 * (100 * n - r * k) < k

StudentsOfDepartment(department) ==
    {u \in DOMAIN students : students[u].department = department}

RowsOfDepartment(department) ==
    {x \in BagRows(participation) :
        x.row.usn \in StudentsOfDepartment(department)}

RowCount(usn) ==
    Cardinality({x \in BagRows(participation) : x.row.usn = usn})

\* C19: get_top_participating_students(limit) returns only students with at
\* least one participation row, each with participation_count equal to the
\* number of its rows, in non-increasing order of count and at most limit
\* rows (the top ones); get_all_students lists every student once, with
\* count 0 when it has no row.
C19_TopParticipating ==
    /\ \A limit \in Limits :
        \A res \in get_top_participating_students(DB, limit, FALSE) :
            /\ Len(res) <= limit
            /\ Len(res) = Min(limit, Cardinality(Participating))
            /\ NoUsnTwice(res)
            /\ \A i \in DOMAIN res :
                 /\ res[i].usn \in DOMAIN students
                 /\ res[i].participation_count >= 1
                 /\ res[i].participation_count = RowCount(res[i].usn)
            /\ \A i, j \in DOMAIN res :
                 i < j =>
                   res[i].participation_count >= res[j].participation_count
            /\ \A u \in DOMAIN students :
                 (\A i \in DOMAIN res : res[i].usn # u) =>
                   \A i \in DOMAIN res :
                      res[i].participation_count >= RowCount(u)
    /\ \A res \in get_all_students(DB, FALSE) :
            /\ Len(res) = Cardinality(DOMAIN students)
            /\ \A u \in DOMAIN students :
                 \E i \in DOMAIN res :
                    /\ res[i].usn = u
                    /\ res[i].participation_count = RowCount(u)
                    /\ RowCount(u) = 0 => res[i].participation_count = 0

\* C19 witness: a student with two rows and a student with one are ranked
\* 2 before 1, and with limit 1 only the first is returned.
C19_Witness ==
    \E u, w \in DOMAIN students :
        /\ RowCount(u) = 2 /\ RowCount(w) = 1
        /\ \A res \in get_top_participating_students(DB, DefaultLimit, FALSE) :
             /\ Len(res) = 2
             /\ res[1].usn = u /\ res[1].participation_count = 2
             /\ res[2].usn = w /\ res[2].participation_count = 1
        /\ \A res \in get_top_participating_students(DB, 1, FALSE) :
             Len(res) = 1 /\ res[1].usn = u

\* C19 witness of the excluded student: a student without rows beside one
\* with a row is left out of the ranking and listed with count 0.
C19_ZeroListed ==
    \E u, w \in DOMAIN students :
        /\ RowCount(u) >= 1 /\ RowCount(w) = 0
        /\ \A res \in get_top_participating_students(DB, DefaultLimit, FALSE) :
             \A i \in DOMAIN res : res[i].usn # w
        /\ \A res \in get_all_students(DB, FALSE) :
             \E i \in DOMAIN res :
                res[i].usn = w /\ res[i].participation_count = 0

EventRowCount(event_id) ==
    Cardinality({x \in BagRows(participation) : x.row.event_id = event_id})

\* C20: get_events_by_participation(limit) ranks every event, those without
\* participants included, by participant_count in non-increasing order, so
\* that no event without participants precedes one with participants, and
\* returns at most limit rows (the top ones); each participant_count is
\* the number of participation rows of the event.
C20_EventsByParticipation ==
    \A limit \in Limits :
        \A res \in get_events_by_participation(DB, limit, FALSE) :
            /\ Len(res) <= limit
            /\ Len(res) = Min(limit, Cardinality(DOMAIN events))
            /\ \A i, j \in DOMAIN res :
                 i # j => res[i].event_id # res[j].event_id
            /\ \A i \in DOMAIN res :
                 /\ res[i].event_id \in DOMAIN events
                 /\ res[i].participant_count = EventRowCount(res[i].event_id)
            /\ \A i, j \in DOMAIN res :
                 i < j =>
                   /\ res[i].participant_count >= res[j].participant_count
                   /\ ~ (res[i].participant_count = 0
                           /\ res[j].participant_count > 0)
            /\ \A e \in DOMAIN events :
                 (\A i \in DOMAIN res : res[i].event_id # e) =>
                   \A i \in DOMAIN res :
                      res[i].participant_count >= EventRowCount(e)

\* C20 witness: an event with two participants and an event with none; the
\* second is ranked, last and with count 0, and limit 1 leaves it out.
C20_Witness ==
    \E e, g \in DOMAIN events :
        /\ EventRowCount(e) = 2 /\ EventRowCount(g) = 0
        /\ \A res \in get_events_by_participation(DB, DefaultLimit, FALSE) :
             /\ Len(res) = 2
             /\ res[1].event_id = e /\ res[1].participant_count = 2
             /\ res[2].event_id = g /\ res[2].participant_count = 0
        /\ \A res \in get_events_by_participation(DB, 1, FALSE) :
             Len(res) = 1 /\ res[1].event_id = e

\* the departments whose students have a participation row
ActiveDepartments ==
    {students[p.usn].department : p \in DOMAIN participation}

\* C21: get_performance_summary returns one row per department that has a
\* participation row; in each row winners + runners_up + participants is the
\* number of participation rows of the department's students; a department
\* without participation rows is absent.
C21_PerformanceSummary ==
    \A res \in get_performance_summary(DB, FALSE) :
        /\ Len(res) = Cardinality(ActiveDepartments)
        /\ \A i, j \in DOMAIN res :
             i # j => res[i].department # res[j].department
        /\ \A i \in DOMAIN res :
             /\ res[i].department \in ActiveDepartments
             /\ RowsOfDepartment(res[i].department) # {}
             /\ res[i].winners + res[i].runners_up + res[i].participants
                  = Cardinality(RowsOfDepartment(res[i].department))
        /\ \A u \in DOMAIN students :
             RowsOfDepartment(students[u].department) = {} =>
               \A i \in DOMAIN res :
                  res[i].department # students[u].department

\* C21 witness: a CSE student with a Winner row and a Participant row beside
\* an ECE student without rows: the summary is the CSE row alone, 1 + 0 + 1.
C21_Witness ==
    \E u, w \in DOMAIN students :
        /\ students[u].department = "CSE" /\ students[w].department = "ECE"
        /\ Cardinality(RowsOfDepartment("CSE")) = 2
        /\ RowsOfDepartment("ECE") = {}
        /\ get_performance_summary(DB, FALSE) =
             {<<[department |-> "CSE", winners |-> 1, runners_up |-> 0,
                 participants |-> 1]>>}

EventsOfType(event_type) ==
    {e \in DOMAIN events : events[e].event_type = event_type}

RowsOfType(event_type) ==
    {x \in BagRows(participation) : x.row.event_id \in EventsOfType(event_type)}

\* C22: get_event_type_statistics returns one row per event type that has
\* an event, with the number of events of the type, the number of distinct
\* students participating in them and the number of their participation
\* rows; a type whose events have no participation row appears with zero
\* student and participation counts.
C22_EventTypeStatistics ==
    \A res \in get_event_type_statistics(DB, FALSE) :
        /\ Len(res) =
             Cardinality({events[e].event_type : e \in DOMAIN events})
        /\ \A e \in DOMAIN events :
             \E i \in DOMAIN res : res[i].event_type = events[e].event_type
        /\ \A i, j \in DOMAIN res :
             i # j => res[i].event_type # res[j].event_type
        /\ \A i \in DOMAIN res :
             LET rows == RowsOfType(res[i].event_type)
             IN  /\ res[i].total_events
                      = Cardinality(EventsOfType(res[i].event_type))
                 /\ res[i].total_events >= 1
                 /\ res[i].total_unique_students
                      = Cardinality({x.row.usn : x \in rows})
                 /\ res[i].total_participations = Cardinality(rows)
                 /\ rows = {} => /\ res[i].total_unique_students = 0
                                 /\ res[i].total_participations = 0

\* C22 witness: a student registered for both events of the type Technical:
\* the type is reported with 2 events, 1 student and 2 rows.
C22_Witness ==
    \E u \in DOMAIN students :
        /\ Cardinality(EventsOfType("Technical")) = 2
        /\ \A e \in EventsOfType("Technical") :
             \E p \in DOMAIN participation : p.usn = u /\ p.event_id = e
        /\ get_event_type_statistics(DB, FALSE) =
             {<<[event_type |-> "Technical", total_events |-> 2,
                 total_unique_students |-> 1, total_participations |-> 2]>>}

\* C22 witness of the type without rows: it is listed with zero counts,
\* after the type that has a row.
C22_ZeroCounts ==
    /\ RowsOfType("Technical") # {}
    /\ get_event_type_statistics(DB, FALSE) =
         {<<[event_type |-> "Technical", total_events |-> 1,
             total_unique_students |-> 1, total_participations |-> 1],
            [event_type |-> "Cultural", total_events |-> 1,
             total_unique_students |-> 0, total_participations |-> 0]>>}

\* the years asked for at the menu, as typed
Y2025 == <<"2", "0", "2", "5">>
Y2026 == <<"2", "0", "2", "6">>
SummaryYears == {Y2025, Y2026}

\* the months of a year that have an event
MonthsOf(year) ==
    {Month(events[e].event_date) :
        e \in {x \in DOMAIN events : events[x].event_date[1] = year}}

\* C23: monthly_summary(year) returns, for each calendar month of the given
\* year that has an event, the event count, the distinct participant count,
\* the Winner count and the Runner-up count; events of other years
\* contribute nothing and months without events do not appear.
C23_MonthlySummaryOfYear ==
    \A year \in SummaryYears :
        /\ show_monthly_summary(DB, year, 2026, FALSE) = {"returned"}
        /\ \A res \in get_monthly_event_summary(DB, FALSE) :
             /\ {res[i].month : i \in DOMAIN res}
                  = MonthsOf(IntOfText(year).v)
             /\ \A i \in DOMAIN res :
                  {"winner_count", "runner_up_count"} \subseteq DOMAIN res[i]

\* the state C23 fails in: with an event in June 2025 and one in January
\* 2026, the menu's call for 2025 raises AttributeError, and the summary the
\* module does have lists both months, without Winner or Runner-up counts
C23_NoSuchMethod ==
    /\ MonthsOf(2025) = {<<2025, 6>>}
    /\ MonthsOf(2026) = {<<2026, 1>>}
    /\ show_monthly_summary(DB, Y2025, 2026, FALSE) = {"AttributeError"}
    /\ get_monthly_event_summary(DB, FALSE) =
         {<<MonthRow(DB, <<2025, 6>>), MonthRow(DB, <<2026, 1>>)>>}
    /\ DOMAIN MonthRow(DB, <<2025, 6>>) =
         {"month", "total_events", "total_participants",
          "total_participations"}

EventsOfMonth(month) ==
    {e \in DOMAIN events : Month(events[e].event_date) = month}

\* what does hold: get_monthly_event_summary, called without a year, lists
\* every month of every year that has an event, in calendar order, with its
\* event count, distinct participant count and participation row count
C23_MonthlySummaryAllYears ==
    \A res \in get_monthly_event_summary(DB, FALSE) :
        /\ {res[i].month : i \in DOMAIN res}
             = {Month(events[e].event_date) : e \in DOMAIN events}
        /\ \A i, j \in DOMAIN res :
             i < j => \/ res[i].month[1] < res[j].month[1]
                      \/ /\ res[i].month[1] = res[j].month[1]
                         /\ res[i].month[2] < res[j].month[2]
        /\ \A i \in DOMAIN res :
             LET rows == {x \in BagRows(participation) :
                             x.row.event_id \in EventsOfMonth(res[i].month)}
             IN  /\ res[i].total_events
                      = Cardinality(EventsOfMonth(res[i].month))
                 /\ res[i].total_participants
                      = Cardinality({x.row.usn : x \in rows})
                 /\ res[i].total_participations = Cardinality(rows)

\* C24: comprehensive_report accepts optional year, department and
\* event-type filters and returns a single structured bundle computed over
\* the rows matching the filters, an absent filter meaning all rows.
C24_ComprehensiveReport ==
    result.op = "generate_comprehensive_report" => result.out = "returned"

\* the state C24 fails in: the menu passed the three filters to a method
\* that takes none
C24_FiltersRefused ==
    result = [op |-> "generate_comprehensive_report", out |-> "raised",
              value |-> "TypeError"]

\* the events of e that d holds as well, unchanged
OtherEventsKept(d, e, event_id) ==
    /\ DOMAIN e.events = DOMAIN d.events \cup {event_id}
    /\ \A x \in DOMAIN d.events \ {event_id} : e.events[x] = d.events[x]

\* C25: after a successful add_event the new event is retrievable by its
\* engine-assigned id with the four values passed (the date as the calendar
\* date the text names); after a successful update_event on that id,
\* get_event_by_id returns the new values under the same id, and no other
\* event is modified by either call.
C25_EventRoundTrip ==
    \A event_type \in {"Technical", "Cultural"},
       event_date \in {D1, D2, DBadDay}, f \in Upto(AnyFaults, 1) :
        LET a == add_event(DB, "Hack", event_type, "CSE", event_date, f)
            id == nextEventId
        IN  a.ret.ok =>
              /\ id \notin DOMAIN events
              /\ OtherEventsKept(DB, a.db, id)
              /\ get_event_by_id(a.db, id, FALSE) =
                   Some([event_id |-> id, name |-> "Hack",
                         event_type |-> event_type, department |-> "CSE",
                         event_date |-> strptime(event_date).v])
              /\ \A name \in {"Fest"},
                    new_type \in {"Technical", "Cultural"},
                    department \in {"ECE"},
                    new_date \in {D1, DNextYear}, g \in Upto(AnyFaults, 2) :
                   LET u == update_event(a.db, id, name, new_type,
                                         department, new_date, g)
                   IN  u.ret.ok =>
                         /\ OtherEventsKept(a.db, u.db, id)
                         /\ DOMAIN u.db.events = DOMAIN a.db.events
                         /\ get_event_by_id(u.db, id, FALSE) =
                              Some([event_id |-> id, name |-> name,
                                    event_type |-> new_type,
                                    department |-> department,
                                    event_date |-> strptime(new_date).v])

\* C25 witness: beside a stored event, add_event("Hack", "Technical", "CSE",
\* "2025-06-01") succeeds and the event is read back under the next id with
\* the date 2025-06-01; update_event with the date 2026-01-15 succeeds and
\* is read back with that date, the stored event being as before.
C25_Witness ==
    /\ DOMAIN events # {}
    /\ LET a == add_event(DB, "Hack", "Technical", "CSE", D1, {})
           u == update_event(a.db, nextEventId, "Hack", "Technical", "CSE",
                             DNextYear, {})
       IN  /\ a.ret.ok /\ u.ret.ok
           /\ get_event_by_id(a.db, nextEventId, FALSE)[1].event_date
                = <<2025, 6, 1>>
           /\ get_event_by_id(u.db, nextEventId, FALSE)[1].event_date
                = <<2026, 1, 15>>
           /\ \E x \in DOMAIN events :
                /\ u.db.events[x] = events[x]
                /\ events[x].event_date # <<2026, 1, 15>>

Reports ==
    {"get_top_participating_students", "get_department_wise_participation",
     "get_events_by_participation", "get_performance_summary",
     "get_event_type_statistics", "get_monthly_event_summary",
     "get_top_performers"}

StoreIsEmpty ==
    /\ DOMAIN students = {}
    /\ DOMAIN events = {}
    /\ participation = EmptyBag

C26_EmptyStoreRead ==
    /\ result.op \in Reports
    /\ StoreIsEmpty
    /\ nextEventId > 1
    /\ \A name \in Reports :
          Report(DB, name, <<DefaultLimit>>, FALSE) = {<< >>}

\* the current dates the two queries are run on: before, on and after the
\* event dates in use
Todays ==
    {<<2025, 5, 31>>, <<2025, 6, 1>>, <<2025, 6, 2>>, <<2025, 12, 31>>,
     <<2026, 1, 15>>, <<2026, 1, 16>>}

Ids(res) == {res[i].event_id : i \in DOMAIN res}

\* C27: run on the same current date, get_upcoming_events and
\* get_past_events partition the events: every stored event is in exactly
\* one of the two results, an event dated today is upcoming, the upcoming
\* events are ordered by date ascending and the past ones descending.
C27_UpcomingAndPast ==
    \A today \in Todays :
        \A up \in get_upcoming_events(DB, today, FALSE),
           past \in get_past_events(DB, today, FALSE) :
            /\ Ids(up) \cup Ids(past) = DOMAIN events
            /\ Ids(up) \cap Ids(past) = {}
            /\ Len(up) + Len(past) = Cardinality(DOMAIN events)
            /\ \A e \in DOMAIN events :
                 events[e].event_date = today => e \in Ids(up)
            /\ \A i \in DOMAIN up :
                 /\ up[i].event_date = events[up[i].event_id].event_date
                 /\ ~DateBefore(up[i].event_date, today)
            /\ \A i \in DOMAIN past :
                 /\ past[i].event_date = events[past[i].event_id].event_date
                 /\ DateBefore(past[i].event_date, today)
            /\ \A i, j \in DOMAIN up :
                 i < j => ~DateBefore(up[j].event_date, up[i].event_date)
            /\ \A i, j \in DOMAIN past :
                 i < j => ~DateBefore(past[i].event_date, past[j].event_date)

\* C27 witness: with events dated 2025-06-02 and 2026-01-15, on 2025-06-02
\* both are upcoming, the one dated today first; on 2026-01-16 both are
\* past, the later one first.
C27_Witness ==
    \E e, g \in DOMAIN events :
        /\ events[e].event_date = <<2025, 6, 2>>
        /\ events[g].event_date = <<2026, 1, 15>>
        /\ DOMAIN events = {e, g}
        /\ \A up \in get_upcoming_events(DB, <<2025, 6, 2>>, FALSE) :
             Len(up) = 2 /\ up[1].event_id = e /\ up[2].event_id = g
        /\ get_past_events(DB, <<2025, 6, 2>>, FALSE) = {<< >>}
        /\ \A past \in get_past_events(DB, <<2026, 1, 16>>, FALSE) :
             Len(past) = 2 /\ past[1].event_id = g /\ past[2].event_id = e
        /\ \A up \in get_upcoming_events(DB, <<2026, 1, 15>>, FALSE) :
             Len(up) = 1 /\ up[1].event_id = g

\* C28 as stated: a primitive called while the connection is absent or dead
\* makes exactly one reconnection attempt and then runs the statement once
\* on the new session; a failed statement is never retried, and when the
\* connection is alive no reconnection is attempted.
C28_AsStated ==
    result.op \in Primitives =>
        /\ result.before # "live" =>
             /\ result.connects = 1
             /\ result.executes = 1
             /\ result.session = "new"
        /\ result.before = "live" => result.connects = 0
        /\ result.executes <= 1

\* C28: a primitive called while the connection is absent or dead calls
\* connect() exactly once; when that gives a session the statement is run
\* once, on the new session; when it gives none, the statement reaches no
\* session: it is handed once to the stale cursor, which refuses it, or to
\* nothing when there is no cursor or connect() ended the process.  A
\* failed statement is never retried, and when the connection is alive no
\* reconnection is attempted and the statement is run once on that session.
C28_ReconnectOnce ==
    result.op \in Primitives =>
        /\ result.before # "live" =>
             /\ result.connects = 1
             /\ result.session \in {"new", "stale", "none"}
             /\ result.session = "new" <=>
                  /\ result.after = "live"
                  /\ result.out = "returned"
             /\ result.session = "new" => result.executes = 1
             /\ result.session = "stale" =>
                  /\ result.executes = 1
                  /\ result.value = FailureValue(result.op)
             /\ result.session = "none" =>
                  /\ result.executes = 0
                  /\ result.out \in {"raised", "exited"}
        /\ result.before = "live" =>
             /\ result.connects = 0
             /\ result.executes = 1
             /\ result.session = "live"
        /\ result.executes <= 1

\* C28 witness: a call made on a dead connection reconnected, ran its
\* statement once on the new session, and the statement failed without
\* being run again.
C28_Witness ==
    /\ result.op = "execute_query"
    /\ result.before = "dead"
    /\ result.connects = 1 /\ result.executes = 1
    /\ result.session = "new"
    /\ result.value = "False"

\* the rows of the ledger for one (usn, event_id) pair
RowsOfPair(usn, event_id) ==
    Copies(participation, Matching(participation, usn, event_id))

\* C29: register_participation's existence check and its insert or update
\* are separate statements that other sessions' statements may come
\* between; however two registrations of the same new pair interleave, the
\* store holds at most one row for the pair, and however a delete_student
\* or delete_event interleaves with a registration, no row references a
\* student or an event that is not in the store.  A session that saw no
\* row and did not register was refused by the engine's keys.
C29_InterleavedRegistrations ==
    /\ \A usn \in SessionScope.usn, event_id \in SessionScope.event_id :
          RowsOfPair(usn, event_id) <= 1
    /\ \A p \in DOMAIN participation :
          p.usn \in DOMAIN students /\ p.event_id \in DOMAIN events
    /\ \A s \in Sessions :
          sessions[s].error = "duplicate" =>
              /\ sessions[s].existing = "None"
              /\ sessions[s].outcome = "failed"

\* C29 witness: two sessions registered the same new pair, both existence
\* checks found no row, one INSERT was stored and the other refused as a
\* duplicate; the store holds the one row.
C29_Witness ==
    \E s, t \in Sessions :
        /\ s # t
        /\ sessions[s].pc = "menu" /\ sessions[t].pc = "menu"
        /\ sessions[s].op = "register_participation"
        /\ sessions[t].op = "register_participation"
        /\ sessions[s].usn = sessions[t].usn
        /\ sessions[s].event_id = sessions[t].event_id
        /\ sessions[s].existing = "None" /\ sessions[t].existing = "None"
        /\ sessions[s].outcome = "registered"
        /\ sessions[t].error = "duplicate"
        /\ RowsOfPair(sessions[s].usn, sessions[s].event_id) = 1

\* both sessions have run the existence check and neither has written
C29_BothChecked ==
    \E s, t \in Sessions :
        /\ s # t
        /\ sessions[s].pc = "execute_query" /\ sessions[t].pc = "execute_query"
        /\ sessions[s].op = "register_participation"
        /\ sessions[t].op = "register_participation"
        /\ sessions[s].existing = "None" /\ sessions[t].existing = "None"
        /\ RowsOfPair(sessions[s].usn, sessions[s].event_id) = 0

\* a delete came between a registration's checks and its INSERT: the
\* INSERT was refused by a foreign key and left no row
C29_DeleteBetween ==
    \E s, t \in Sessions :
        /\ sessions[s].op = "register_participation"
        /\ sessions[s].existing = "None"
        /\ sessions[s].error = "foreign key"
        /\ sessions[t].op \in {"delete_student", "delete_event"}
        /\ sessions[t].outcome = "deleted"
        /\ participation = EmptyBag

\* C30 as stated: choosing any item of the Reports menu returns control to
\* the Reports menu; no Reports menu action raises an exception that ends
\* the application through the top-level handler.
C30_ReportsMenuReturns ==
    result.op \in MenuOps =>
        /\ result.out = "returned"
        /\ process = "running"

\* C30 failing run: with a participation row in the store and the gateway
\* answering, Performance Summary reads item['count'] from a record that
\* has no such field; the KeyError ends the application.
C30_MenuEndsApplication ==
    /\ result.op = "show_performance_summary"
    /\ result.out = "raised"
    /\ result.value = "KeyError"
    /\ participation # EmptyBag
    /\ process = "exited"

\* the items of the Reports menu whose calls and field reads match the
\* ReportsModule always return
C30_MatchingItemsReturn ==
    result.op \in {"show_top_students", "show_department_participation",
                   "show_events_by_participation"} =>
        /\ result.out = "returned"
        /\ process = "running"

\* each of the other five items can end the application
C30_EveryOtherItemFails ==
    result.op \in MenuOps \ {"show_top_students",
                             "show_department_participation",
                             "show_events_by_participation"} =>
        \/ result.out = "returned"
        \/ /\ process = "exited"
           /\ result.value \in {"KeyError", "AttributeError", "TypeError"}
====
